---- MODULE Spec2Model ----
(***************************************************************************)
(* PriusExtract: the in-place patch pipeline (src/patch/patch_engine.ts)   *)
(* over the idx+dat archive pair (core/prius_archive.ts).                  *)
(*                                                                         *)
(* The data file is a sequence of 512-byte blocks; a block's content is a  *)
(* token [f |-> file, c |-> chunk] naming the chunk of the wrapped payload *)
(* (zero padding included) that it holds.  The index file is modelled by   *)
(* its logical channels: the directory entries (name -> meta index), the   *)
(* meta channel (records of four u32 words), the FAT channel (u32 words    *)
(* over the whole channel capacity) and the header's FAT size word.        *)
(***************************************************************************)
EXTENDS Integers, Sequences, FiniteSets, TLC

\* ------------------------------------------------------------ constants
DAT_BLOCK_SIZE == 512
META_SIZE == 16
writeThreshold == 8388608
\* The end-of-chain word 0xFFFFFFFF.  The model checker's integers are signed
\* 32-bit, so a u32 word is written as the int32 with the same 32 bits:
\* words below 2^31 are themselves, 0xFFFFFFFF is -1, 0xFFFFFFFE is -2.
FAT_END == -1

\* Longest mapping handed to patchFiles.
MaxTargets == 2

\* Characters of archive keys, by code unit.
CH_SLASH == 47
CH_BACKSLASH == 92

\* `x >>> 0` and writeUInt32LE keep the 32 bits of x, which is what a word of
\* the model denotes.
U32(x) == x

\* JS `x | 1`: bit 0 set, the other 31 bits kept.
OrBit0(x) == IF x % 2 = 1 THEN x ELSE x + 1

FILE_WRAPPER_HEADER_SIZE == 32

\* ------------------------------------------------------------ meta records
packMetaRecord(flags, size, startBlock, extra) ==
  [flags |-> U32(flags), size |-> U32(size),
   startBlock |-> U32(startBlock), extra |-> U32(extra)]

\* ------------------------------------------------------------ paths
normalizeArchiveQueryPath(p) ==
  [i \in DOMAIN p |-> IF p[i] = CH_SLASH THEN CH_BACKSLASH ELSE p[i]]

toLowerCase(p) ==
  [i \in DOMAIN p |-> IF p[i] >= 65 /\ p[i] <= 90 THEN p[i] + 32 ELSE p[i]]

\* repack's normalizeArchivePath: slashes to backslashes, then lowercase.
normalizeArchivePath(p) == toLowerCase(normalizeArchiveQueryPath(p))

\* ------------------------------------------------------------ string table
STRING_PAYLOAD_SIZE == 60

\* The word 0x80000000 (the in-use bit of a string header, the top bit of a
\* node's name_raw), as the int32 with the same bits.
TOP_BIT == -2147483647 - 1

\* `x | 0x80000000` for an index x below 2^31, and `x & 0x7fffffff`.
OrTopBit(x) == IF x >= 0 THEN TOP_BIT + x ELSE x
Low31(x) == IF x < 0 THEN x - TOP_BIT ELSE x

Min(a, b) == IF a < b THEN a ELSE b

\* The 60 payload bytes of a record holding `chunk`: Buffer.alloc zero fills.
ZeroPadded(chunk) ==
  [i \in 1..STRING_PAYLOAD_SIZE |-> IF i <= Len(chunk) THEN chunk[i] ELSE 0]

\* new StringTableBuilder(): record 0 is the sentinel "." string.
NewStringTable ==
  [records |-> << [header |-> TOP_BIT, payload |-> ZeroPadded(<<46>>)] >>,
   cache |-> {}]

\* The chunks of `text`, one per 60 bytes (lines 25-28).
Chunks(text) ==
  [c \in 1..((Len(text) + STRING_PAYLOAD_SIZE - 1) \div STRING_PAYLOAD_SIZE) |->
     SubSeq(text, (c - 1) * STRING_PAYLOAD_SIZE + 1,
            Min(Len(text), c * STRING_PAYLOAD_SIZE))]

\* A builder that links every record to a successor, the last one included.
StringTableAdd_LinksLast(stb, text) ==
  LET chunks == Chunks(text)
      firstIdx == Len(stb.records)
  IN  [idx |-> firstIdx,
       stb |-> [records |-> stb.records \o
                   [i \in 1..Len(chunks) |->
                      [header |-> OrTopBit(firstIdx + i),
                       payload |-> ZeroPadded(chunks[i])]],
                cache |-> stb.cache \cup {<<text, firstIdx>>}]]

\* StringTableBuilder.add(text, cacheKey), with the cache key of repack: the
\* string whose bytes `text` is.  The builder after the call and the index
\* returned.
StringTableAdd(stb, text) ==
  LET cached == {e \in stb.cache : e[1] = text}
      chunks == Chunks(text)
      firstIdx == Len(stb.records)
  IN  IF Len(text) = 0 THEN [idx |-> 0, stb |-> stb]
      ELSE IF cached # {} THEN [idx |-> (CHOOSE e \in cached : TRUE)[2], stb |-> stb]
      ELSE [idx |-> firstIdx,
            stb |-> [records |-> stb.records \o
                        [i \in 1..Len(chunks) |->
                           [header |-> OrTopBit(IF i = Len(chunks) THEN 0 ELSE firstIdx + i),
                            payload |-> ZeroPadded(chunks[i])]],
                     cache |-> stb.cache \cup {<<text, firstIdx>>}]]

\* chunk.indexOf(0): the 0-based position of the first NUL, -1 without one.
IndexOfNul(chunk) ==
  IF \E i \in DOMAIN chunk : chunk[i] = 0
    THEN (CHOOSE i \in DOMAIN chunk :
            chunk[i] = 0 /\ \A j \in 1..(i - 1) : chunk[j] # 0) - 1
    ELSE -1

\* PriusArchive.stringBytes: the walk over the record chain; ok is FALSE where
\* the code throws (a loop, a record index out of range).
RECURSIVE StringWalk(_, _, _, _)
StringWalk(strings, idx, seen, out) ==
  IF idx \in seen \/ idx * 64 + 64 > Len(strings) * 64
    THEN [ok |-> FALSE, bytes |-> out]
  ELSE LET rec == strings[idx + 1]
           nxt == Low31(rec.header)
           nul == IndexOfNul(rec.payload)
       IN  IF nul # -1 THEN [ok |-> TRUE, bytes |-> out \o SubSeq(rec.payload, 1, nul)]
           ELSE IF nxt = 0 THEN [ok |-> TRUE, bytes |-> out \o rec.payload]
           ELSE StringWalk(strings, nxt, seen \cup {idx}, out \o rec.payload)

\* A reader that throws for a negative index.
stringBytes_NegativeThrows(strings, stringIndex) ==
  IF stringIndex < 0 THEN [ok |-> FALSE, bytes |-> <<>>]
  ELSE StringWalk(strings, stringIndex, {}, <<>>)

stringBytes(strings, stringIndex) ==
  IF stringIndex < 0 THEN [ok |-> TRUE, bytes |-> <<>>]
  ELSE StringWalk(strings, stringIndex, {}, <<>>)

\* Which error stringBytes throws: "loop" for `String index loop detected`
\* (lines 270-272), "range" for `String record index out of range` (275-278),
\* "none" when it returns.
RECURSIVE StringWalkError(_, _, _)
StringWalkError(strings, idx, seen) ==
  IF idx \in seen THEN "loop"
  ELSE IF idx * 64 + 64 > Len(strings) * 64 THEN "range"
  ELSE LET rec == strings[idx + 1]
       IN  IF IndexOfNul(rec.payload) # -1 \/ Low31(rec.header) = 0 THEN "none"
           ELSE StringWalkError(strings, Low31(rec.header), seen \cup {idx})

stringBytesError(strings, stringIndex) ==
  IF stringIndex < 0 THEN "none" ELSE StringWalkError(strings, stringIndex, {})

\* ------------------------------------------------------------ Patricia trie
\* (x >> n) & 1 for a byte x.
BitOf(x, n) == (x \div (2 ^ n)) % 2

getBit(key, bitIndex) ==
  IF bitIndex < 0 THEN 2
  ELSE IF bitIndex \div 8 >= Len(key) THEN 0
  ELSE BitOf(key[(bitIndex \div 8) + 1], bitIndex % 8)

ByteAt(a, byteIndex) == IF byteIndex < Len(a) THEN a[byteIndex + 1] ELSE 0

\* A comparison that looks only at the bytes both keys have.
firstDifferingBit_CommonLength(a, b) ==
  LET maxLen == IF Len(a) > Len(b) THEN Len(a) ELSE Len(b)
      minLen == IF Len(a) < Len(b) THEN Len(a) ELSE Len(b)
      differ == {i \in 0..(minLen - 1) : ByteAt(a, i) # ByteAt(b, i)}
  IN  IF differ = {} THEN maxLen * 8
      ELSE LET byteIndex == CHOOSE i \in differ : \A j \in differ : i <= j
               bits == {n \in 0..7 : BitOf(ByteAt(a, byteIndex), n) # BitOf(ByteAt(b, byteIndex), n)}
           IN  byteIndex * 8 + (CHOOSE n \in bits : \A m \in bits : n <= m)

\* firstDifferingBit (lines 22-37): the shorter key is read as if followed by
\* zero bytes; maxLen * 8 when no byte differs.
firstDifferingBit(a, b) ==
  LET maxLen == IF Len(a) > Len(b) THEN Len(a) ELSE Len(b)
      differ == {i \in 0..(maxLen - 1) : ByteAt(a, i) # ByteAt(b, i)}
  IN  IF differ = {} THEN maxLen * 8
      ELSE LET byteIndex == CHOOSE i \in differ : \A j \in differ : i <= j
               bits == {n \in 0..7 : BitOf(ByteAt(a, byteIndex), n) # BitOf(ByteAt(b, byteIndex), n)}
           IN  byteIndex * 8 + (CHOOSE n \in bits : \A m \in bits : n <= m)

\* new PatriciaTrieBuilder(): the sentinel node 0; node i is nodes[i + 1].
\* keyData[i + 1] is the key of node i.
NewTrie ==
  [nodes |-> << [metaIndex |-> 0, bitIndex |-> -1, nameRaw |-> TOP_BIT,
                 leftRaw |-> 0, rightRaw |-> 0] >>,
   keyData |-> << <<>> >>,
   threw |-> FALSE]

Child(nodes, curr, key) ==
  IF getBit(key, nodes[curr + 1].bitIndex) # 0
    THEN nodes[curr + 1].rightRaw ELSE nodes[curr + 1].leftRaw

\* The walk of lines 82-87: down to the first back-edge.
RECURSIVE WalkToLeaf(_, _, _, _)
WalkToLeaf(nodes, key, prev, curr) ==
  IF nodes[prev + 1].bitIndex < nodes[curr + 1].bitIndex
    THEN WalkToLeaf(nodes, key, curr, Child(nodes, curr, key))
    ELSE curr

\* A second walk that goes down to the first back-edge whatever diffBit is.
RECURSIVE WalkToEdge_ToLeaf(_, _, _, _, _)
WalkToEdge_ToLeaf(nodes, key, diffBit, prev, curr) ==
  IF nodes[prev + 1].bitIndex < nodes[curr + 1].bitIndex
    THEN WalkToEdge_ToLeaf(nodes, key, diffBit, curr, Child(nodes, curr, key))
    ELSE <<prev, curr>>

\* The walk of lines 95-100: down to the edge where diffBit fits.
RECURSIVE WalkToEdge(_, _, _, _, _)
WalkToEdge(nodes, key, diffBit, prev, curr) ==
  IF nodes[prev + 1].bitIndex < nodes[curr + 1].bitIndex
       /\ nodes[curr + 1].bitIndex < diffBit
    THEN WalkToEdge(nodes, key, diffBit, curr, Child(nodes, curr, key))
    ELSE <<prev, curr>>

\* An insertion that always hangs the new node on the right of its parent.
TrieInsert_AlwaysRight(t, key, strIdx, metaIdx) ==
  LET nodeIdx == Len(t.nodes)
      blank == [metaIndex |-> metaIdx, bitIndex |-> -1, nameRaw |-> OrTopBit(strIdx),
                leftRaw |-> 0, rightRaw |-> 0]
      nodes0 == Append(t.nodes, blank)
      keyData0 == Append(t.keyData, key)
  IN  IF nodeIdx = 1
        THEN LET diffBit == firstDifferingBit(key, <<>>)
                 n1 == IF getBit(key, diffBit) # 0
                         THEN [blank EXCEPT !.bitIndex = diffBit, !.leftRaw = 0, !.rightRaw = nodeIdx]
                         ELSE [blank EXCEPT !.bitIndex = diffBit, !.leftRaw = nodeIdx, !.rightRaw = 0]
             IN  [nodes |-> [[nodes0 EXCEPT ![nodeIdx + 1] = n1]
                               EXCEPT ![1].rightRaw = nodeIdx],
                  keyData |-> keyData0, threw |-> FALSE]
        ELSE LET leaf == WalkToLeaf(nodes0, key, 0, nodes0[1].rightRaw)
                 closestKey == keyData0[leaf + 1]
                 diffBit == firstDifferingBit(key, closestKey)
                 maxLen == IF Len(key) > Len(closestKey) THEN Len(key) ELSE Len(closestKey)
             IN  IF diffBit >= maxLen * 8
                   THEN [nodes |-> nodes0, keyData |-> keyData0, threw |-> TRUE]
                 ELSE LET edge == WalkToEdge(nodes0, key, diffBit, 0, nodes0[1].rightRaw)
                          prev == edge[1]
                          curr == edge[2]
                          nn == IF getBit(key, diffBit) # 0
                                  THEN [blank EXCEPT !.bitIndex = diffBit, !.leftRaw = curr, !.rightRaw = nodeIdx]
                                  ELSE [blank EXCEPT !.bitIndex = diffBit, !.leftRaw = nodeIdx, !.rightRaw = curr]
                          nodes1 == [nodes0 EXCEPT ![nodeIdx + 1] = nn]
                      IN  [nodes |-> [nodes1 EXCEPT ![prev + 1].rightRaw = nodeIdx],
                           keyData |-> keyData0, threw |-> FALSE]

\* One iteration of buildFromKeys (lines 54-118): the builder after the key
\* is inserted; threw marks the "Duplicate key" error.
TrieInsert(t, key, strIdx, metaIdx) ==
  LET nodeIdx == Len(t.nodes)
      blank == [metaIndex |-> metaIdx, bitIndex |-> -1, nameRaw |-> OrTopBit(strIdx),
                leftRaw |-> 0, rightRaw |-> 0]
      nodes0 == Append(t.nodes, blank)
      keyData0 == Append(t.keyData, key)
  IN  IF nodeIdx = 1
        THEN LET diffBit == firstDifferingBit(key, <<>>)
                 n1 == IF getBit(key, diffBit) # 0
                         THEN [blank EXCEPT !.bitIndex = diffBit, !.leftRaw = 0, !.rightRaw = nodeIdx]
                         ELSE [blank EXCEPT !.bitIndex = diffBit, !.leftRaw = nodeIdx, !.rightRaw = 0]
             IN  [nodes |-> [[nodes0 EXCEPT ![nodeIdx + 1] = n1]
                               EXCEPT ![1].rightRaw = nodeIdx],
                  keyData |-> keyData0, threw |-> FALSE]
        ELSE LET leaf == WalkToLeaf(nodes0, key, 0, nodes0[1].rightRaw)
                 closestKey == keyData0[leaf + 1]
                 diffBit == firstDifferingBit(key, closestKey)
                 maxLen == IF Len(key) > Len(closestKey) THEN Len(key) ELSE Len(closestKey)
             IN  IF diffBit >= maxLen * 8
                   THEN [nodes |-> nodes0, keyData |-> keyData0, threw |-> TRUE]
                 ELSE LET edge == WalkToEdge(nodes0, key, diffBit, 0, nodes0[1].rightRaw)
                          prev == edge[1]
                          curr == edge[2]
                          nn == IF getBit(key, diffBit) # 0
                                  THEN [blank EXCEPT !.bitIndex = diffBit, !.leftRaw = curr, !.rightRaw = nodeIdx]
                                  ELSE [blank EXCEPT !.bitIndex = diffBit, !.leftRaw = nodeIdx, !.rightRaw = curr]
                          nodes1 == [nodes0 EXCEPT ![nodeIdx + 1] = nn]
                          parentBit == nodes1[prev + 1].bitIndex
                          goRight == IF parentBit < 0 THEN TRUE ELSE getBit(key, parentBit) # 0
                      IN  [nodes |-> IF goRight
                                       THEN [nodes1 EXCEPT ![prev + 1].rightRaw = nodeIdx]
                                       ELSE [nodes1 EXCEPT ![prev + 1].leftRaw = nodeIdx],
                           keyData |-> keyData0, threw |-> FALSE]

\* buildFromKeys over parallel lists; it stops at the first throw.
\* The loop over the keys.  Each step is taken on the value of the step before
\* (the one-element set binds it), not on its expression.
RECURSIVE buildFromKeys(_, _, _, _, _)
buildFromKeys(t, keys, stringIndices, metaIndices, i) ==
  IF i > Len(keys) \/ t.threw THEN t
  ELSE CHOOSE r \in { buildFromKeys(next, keys, stringIndices, metaIndices, i + 1) :
                        next \in {TrieInsert(t, keys[i], stringIndices[i], metaIndices[i])} } : TRUE

\* PriusArchive.findNode on the trie and string channels: the node the walk
\* ends on when its name equals the key, else -1.
findNode(dt, strings, key) ==
  LET keyBytes == normalizeArchiveQueryPath(key)
  IN  IF Len(keyBytes) = 0 THEN -1
      ELSE LET node == WalkToLeaf(dt, keyBytes, 0, dt[1].rightRaw)
               name == stringBytes(strings, Low31(dt[node + 1].nameRaw))
           IN  IF name.ok /\ name.bytes = keyBytes THEN node ELSE -1

\* ------------------------------------------------------------ archives
\* Index layout of the archives of the model: one stripe of one page per
\* channel, with the smallest page size the reader infers.
Layout == [pageSize |-> 512, stripes |-> 1, pagesPerStripe |-> <<1, 1, 1, 1>>]

ChannelCapacity(layout, ch) ==
  layout.stripes * layout.pagesPerStripe[ch + 1] * layout.pageSize

Reserved == [f |-> 0, c |-> 0]

\* The string table after adding `keys` in order, with the indices returned.
RECURSIVE AddStrings(_, _, _, _)
AddStrings(stb, keys, i, indices) ==
  IF i > Len(keys) THEN [stb |-> stb, indices |-> indices]
  ELSE CHOOSE a \in { AddStrings(r.stb, keys, i + 1, Append(indices, r.idx)) :
                        r \in {StringTableAdd(stb, keys[i])} } : TRUE

\* The trie and string channels of a directory with the given entries, as
\* the builders emit them.
DirectoryChannels(names) ==
  LET keys == [i \in DOMAIN names |-> names[i].name]
      added == AddStrings(NewStringTable, keys, 1, <<>>)
      t == buildFromKeys(NewTrie, keys, added.indices,
                         [i \in DOMAIN names |-> names[i].metaIndex], 1)
  IN  [dt |-> t.nodes, strings |-> added.stb.records]

\* Chain words of a file occupying blocks first..first+n-1.
ChainWord(first, n, b) == IF b < first + n - 1 THEN b + 1 ELSE FAT_END

\* The directory of the archives of the model: "a\b", "b", "B" and "d", the
\* last entry pointing past the meta channel.  findMeta compares bytes, so
\* "b" and "B" are two entries.
ArchiveNames ==
  << [name |-> <<97, 92, 98>>, metaIndex |-> 0],
     [name |-> <<98>>, metaIndex |-> 1],
     [name |-> <<66>>, metaIndex |-> 2],
     [name |-> <<100>>, metaIndex |-> 9] >>

\* The trie and string channels of that directory, as the builders emit them
\* for ArchiveNames (the value of DirectoryChannels(ArchiveNames)).
ArchiveDirectory ==
  [ dt |-> << [metaIndex |-> 0, bitIndex |-> -1, nameRaw |-> OrTopBit(0), leftRaw |-> 0, rightRaw |-> 1],
              [metaIndex |-> 0, bitIndex |-> 0, nameRaw |-> OrTopBit(1), leftRaw |-> 2, rightRaw |-> 1],
              [metaIndex |-> 1, bitIndex |-> 1, nameRaw |-> OrTopBit(2), leftRaw |-> 4, rightRaw |-> 3],
              [metaIndex |-> 2, bitIndex |-> 5, nameRaw |-> OrTopBit(3), leftRaw |-> 3, rightRaw |-> 2],
              [metaIndex |-> 9, bitIndex |-> 2, nameRaw |-> OrTopBit(4), leftRaw |-> 0, rightRaw |-> 4] >>,
    strings |-> << [header |-> TOP_BIT, payload |-> ZeroPadded(<<46>>)],
                   [header |-> TOP_BIT, payload |-> ZeroPadded(<<97, 92, 98>>)],
                   [header |-> TOP_BIT, payload |-> ZeroPadded(<<98>>)],
                   [header |-> TOP_BIT, payload |-> ZeroPadded(<<66>>)],
                   [header |-> TOP_BIT, payload |-> ZeroPadded(<<100>>)] >> ]

\* An archive with file 101 in blocks 1..n1 and file 102 in block n1+1.
\* `slack` bytes are appended to the data file, `extraBlocks` blocks are in
\* the data file without a FAT entry, and `fatOdd` bytes are added to the FAT
\* size word (three ways an archive can be inconsistent).
MkArchive(n1, slack, extraBlocks, fatOdd) ==
  LET nBlocks == n1 + 2
      capWords == ChannelCapacity(Layout, 3) \div 4
  IN  [ layout |-> Layout,
        \* directory entries: name bytes and meta index; the last entry
        \* points past the meta channel.
        names |-> ArchiveNames,
        dt |-> ArchiveDirectory.dt,
        strings |-> ArchiveDirectory.strings,
        meta |-> << packMetaRecord(1, (n1 - 1) * DAT_BLOCK_SIZE + 88, 1, 0),
                    packMetaRecord(-2, 40, n1 + 1, 7),
                    packMetaRecord(0, 0, 0, 5) >>,
        fatSize |-> nBlocks * 4 + fatOdd,
        fat |-> [b \in 1..capWords |->
                   IF b - 1 = 0 THEN 0
                   ELSE IF b - 1 <= n1 THEN ChainWord(1, n1, b - 1)
                   ELSE IF b - 1 = n1 + 1 THEN FAT_END
                   ELSE 0],
        datSize |-> (nBlocks + extraBlocks) * DAT_BLOCK_SIZE + slack,
        dat |-> [b \in 1..(nBlocks + extraBlocks + (IF slack > 0 THEN 1 ELSE 0)) |->
                   IF b - 1 = 0 THEN Reserved
                   ELSE IF b - 1 <= n1 THEN [f |-> 101, c |-> b - 2]
                   ELSE IF b - 1 = n1 + 1 THEN [f |-> 102, c |-> 0]
                   ELSE [f |-> 103, c |-> 0]] ]

Archives ==
  << MkArchive(2, 0, 0, 0),      \* consistent, room to grow
     MkArchive(124, 0, 0, 0),    \* consistent, two FAT entries from full
     MkArchive(2, 100, 0, 0),    \* data file not block aligned
     MkArchive(2, 0, 1, 0),      \* data file longer than the FAT
     MkArchive(2, 0, 0, 2) >>    \* FAT size word not a whole entry count

\* ------------------------------------------------------------ local files
\* A local file: whether it can be read, and the length of its wrapped
\* (header + deflate) form.  Distinct ids have distinct contents.
LocalFiles ==
  [id \in 1..3 |->
     CASE id = 1 -> [readable |-> TRUE, wrappedLen |-> 512]
       [] id = 2 -> [readable |-> TRUE, wrappedLen |-> 700]
       [] OTHER  -> [readable |-> FALSE, wrappedLen |-> 0]]

\* Queries of the model: "a/b", "A\B", "b", "B", "B/" and "d".
Queries == { <<97, 47, 98>>, <<65, 92, 66>>, <<98>>, <<66>>, <<66, 47>>, <<100>> }

MapEntries == [requestedPath : Queries, localPath : DOMAIN LocalFiles]

\* A Map has one value per key and iterates in insertion order.
FileMaps ==
  UNION { { m \in [1..n -> MapEntries] :
              \A i, j \in 1..n : i # j => m[i].requestedPath # m[j].requestedPath }
          : n \in 0..MaxTargets }

\* ------------------------------------------------------------ state
VARIABLES
  arcId,            \* which archive of Archives the run was started on
  fileMap, dryRun,  \* arguments of patchFiles
  idxMeta,          \* index file: meta channel, one record per slot
  idxFatSize,       \* index file: size_bytes header word of the FAT channel
  idxFat,           \* index file: FAT channel words over the channel capacity
  datSize, dat,     \* data file: length in bytes, blocks
  pc,               \* position in patchFiles
  patches, notFound, deduped,
  originalDatSize, originalFatSize, currentBlocks, idxLayout,
  prepared, newFatEntries, newFatSize,
  datAppended, idxUpdated, rolledBack,
  pendingWrites, pendingBytes, writePos,
  cursor,           \* index of the running for loop
  outcome,          \* what patchFiles reports: a returned PatchStats or a throw
  ioLog,            \* the system calls made on the two files, in order
  idxGeom,          \* index file: page size, stripes, pages per stripe
  idxDt,            \* index file: trie channel, one node per slot
  idxStrings,       \* index file: string channel, one record per slot
  runs,             \* patchFiles runs started on the archive so far
  \* repack(inDir, outIdx, outDat, fileList, ..., jobs, ..., sizeSchedule)
  rpc,              \* position in repack
  candidates, sizeSchedule, jobs,
  stb, trie,        \* the string table and trie builders
  validPaths, validLocalPaths, stringIndices, metaIndices,
  skipped, repDeduped,
  scheduledPaths, scheduledToOriginal,
  currentBlock, fatEntries, startBlocks, wrappedSizes, totalRawSize,
  repOutcome,       \* what repack reports: RepackStats or a throw
  \* the worker pool of compressFilesBatch and compressFilesStream
  tasks,            \* the file paths handed to the compressor
  workerCount,
  nextTask,
  busy,             \* per worker: the index of the task it holds, -1 when idle
  ready,            \* stream: the results received and not yet yielded
  results,          \* batch: the result slots
  completed, yielded,
  failed,           \* failed (stream) or the rejection (batch)
  arrivals,         \* the task indices of the results, in the order they came in
  \* one call of the compressor on the event loop of the main thread
  cmode,            \* "stream" or "batch"
  cpc,              \* position of the call
  mailbox,          \* worker -> the event it raised that no handler ran for yet
  failedWith,       \* the Error in `failed`, or the one handed to reject
  errorLog,         \* the errors the handlers were called with, in order
  delivered,        \* the task indices handed to the caller, in order
  thrown,           \* the error the call failed with
  \* writeIdx / PriusIdx / writeIdxChannelBytes on an index file of bytes
  ipc,              \* position in the write-then-read scenario
  writeArgs,        \* writeIdx: its pageSize and pagesPerStripe arguments
  channelSizes,     \* writeIdx: the length of each channel buffer
  idxFileSize,      \* the length of the index file
  idxPages,         \* physical page -> <<channel, channel page>> written there
  idxPatch,         \* file offset -> byte, for the bytes written in place
  chWrite,          \* the (channel, channelOffset, data) of the write
  chRead,           \* the channel as read back
  \* one call of a reader of PriusArchive on channels of any content
  rdpc,             \* position of the call
  rdCall,           \* the method and its argument
  rdOut,            \* what the call returned, or the error it threw
  datFd             \* the data file descriptor of the archive

fileVars == <<idxMeta, idxFatSize, idxFat, datSize, dat>>
idxStaticVars == <<idxGeom, idxDt, idxStrings>>
repackVars == <<rpc, candidates, sizeSchedule, jobs, stb, trie, validPaths,
                validLocalPaths, stringIndices, metaIndices, skipped, repDeduped,
                scheduledPaths, scheduledToOriginal, currentBlock, fatEntries,
                startBlocks, wrappedSizes, totalRawSize, repOutcome>>
poolVars == <<tasks, workerCount, nextTask, busy, ready, results, completed,
              yielded, failed, arrivals>>
callVars == <<cmode, cpc, mailbox, failedWith, errorLog, delivered, thrown>>
readVars == <<rdpc, rdCall, rdOut, datFd>>
idxByteVars == <<ipc, writeArgs, channelSizes, idxFileSize, idxPages, idxPatch, chWrite, chRead>>
\* The arguments of patchFiles and the state a run never writes.
inputVars == <<arcId, fileMap, dryRun, idxStaticVars, runs, repackVars, poolVars,
               idxByteVars, callVars, readVars>>
phase1Vars == <<patches, notFound, deduped>>
preflightVars == <<originalDatSize, originalFatSize, currentBlocks, idxLayout>>
phase2Vars == <<prepared, newFatEntries, newFatSize>>
flagVars == <<datAppended, idxUpdated, rolledBack>>
writeVars == <<pendingWrites, pendingBytes, writePos>>
vars == <<inputVars, fileVars, pc, phase1Vars, preflightVars, phase2Vars,
          flagVars, writeVars, cursor, outcome, ioLog>>

\* The archive the run started on: the pre-patch state of both files.
PrePatch == Archives[arcId]

\* ------------------------------------------------------------ PriusArchive
\* The opened archive reads the channels of the index file once.  Nothing
\* writes the files before the commit phase, so phases 1 and 2 see the
\* pre-patch contents.
OpenArchive ==
  [layout |-> idxGeom, dt |-> idxDt, strings |-> idxStrings, meta |-> idxMeta,
   fatSize |-> idxFatSize, fat |-> idxFat]

fatEntryCount(arc) == arc.fatSize \div 4

\* A lookup that returns the node the walk ends on without comparing its name.
findMeta_NoNameCheck(arc, key) ==
  LET keyNorm == normalizeArchiveQueryPath(key)
  IN  IF Len(keyNorm) = 0 THEN -1
      ELSE arc.dt[WalkToLeaf(arc.dt, keyNorm, 0, arc.dt[1].rightRaw) + 1].metaIndex

\* findMeta: the meta index of the node findNode returns; -1 for the empty
\* key or when the name of the node the walk ends on is not the key.
findMeta(arc, key) ==
  LET node == findNode(arc.dt, arc.strings, key)
  IN  IF node < 0 THEN -1 ELSE arc.dt[node + 1].metaIndex

\* A listing that starts at the sentinel.
iterEntries_FromSentinel(arc) ==
  [k \in 1..Len(arc.dt) |->
     [nodeIndex |-> k - 1, metaIndex |-> arc.dt[k].metaIndex,
      path |-> stringBytes(arc.strings, Low31(arc.dt[k].nameRaw))]]

\* iterEntries: the entries in the order the generator yields them, node
\* indices 1 to dtNodeCount - 1; path.ok is FALSE where stringBytes throws.
iterEntries(arc) ==
  [j \in 1..(Len(arc.dt) - 1) |->
     [nodeIndex |-> j, metaIndex |-> arc.dt[j + 1].metaIndex,
      path |-> stringBytes(arc.strings, Low31(arc.dt[j + 1].nameRaw))]]

\* metaRecord throws for an index past the meta channel.
MetaInRange(arc, metaIndex) ==
  metaIndex * META_SIZE >= 0 /\ metaIndex * META_SIZE + META_SIZE <= Len(arc.meta) * META_SIZE

metaRecord(arc, metaIndex) == arc.meta[metaIndex + 1]

\* ------------------------------------------------------------ phase 1
\* A resolution that tries the lowercased key before the exact one.
resolveMetaForPath_LowerFirst(arc, archivePath) ==
  LET query == normalizeArchiveQueryPath(archivePath)
      lower == toLowerCase(query)
  IN  IF findMeta(arc, lower) >= 0 THEN <<lower, findMeta(arc, lower)>>
      ELSE IF findMeta(arc, query) >= 0 THEN <<query, findMeta(arc, query)>>
      ELSE <<query, -1>>

\* resolveMetaForPath (lines 48-63): the candidates are the slash-normalised
\* query and, when it differs, its lowercase form; the first one findMeta
\* knows is returned with its meta index.
resolveMetaForPath(arc, archivePath) ==
  LET query == normalizeArchiveQueryPath(archivePath)
      lower == toLowerCase(query)
  IN  IF findMeta(arc, query) >= 0 THEN <<query, findMeta(arc, query)>>
      ELSE IF lower # query /\ findMeta(arc, lower) >= 0
           THEN <<lower, findMeta(arc, lower)>>
      ELSE <<query, -1>>

\* The resolution loop over the mapping, in insertion order.
RECURSIVE ResolveLoop(_, _, _, _)
ResolveLoop(arc, fm, i, acc) ==
  IF i > Len(fm) \/ acc.threw THEN acc
  ELSE LET r == resolveMetaForPath(arc, fm[i].requestedPath)
           metaIdx == r[2]
       IN  IF metaIdx < 0
             THEN ResolveLoop(arc, fm, i + 1, [acc EXCEPT !.notFound = @ + 1])
           ELSE IF metaIdx \in acc.seenMeta
             THEN ResolveLoop(arc, fm, i + 1, [acc EXCEPT !.deduped = @ + 1])
           ELSE IF ~MetaInRange(arc, metaIdx)
             THEN [acc EXCEPT !.threw = TRUE, !.seenMeta = @ \cup {metaIdx}]
           ELSE ResolveLoop(arc, fm, i + 1,
                  [acc EXCEPT !.seenMeta = @ \cup {metaIdx},
                              !.patches = Append(@,
                                 [requestedPath |-> fm[i].requestedPath,
                                  archivePath |-> r[1],
                                  localPath |-> fm[i].localPath,
                                  metaIdx |-> metaIdx,
                                  oldMeta |-> metaRecord(arc, metaIdx)])])

ResolveAll(arc, fm) ==
  ResolveLoop(arc, fm, 1,
    [patches |-> <<>>, notFound |-> 0, deduped |-> 0, seenMeta |-> {}, threw |-> FALSE])

\* What patchFiles reports.
NoOutcome == [kind |-> "none", has |-> {}, patched |-> 0, wouldPatch |-> 0, rolledBack |-> FALSE]
Thrown == [kind |-> "throw", has |-> {}, patched |-> 0, wouldPatch |-> 0, rolledBack |-> FALSE]
Returned(has, patched, wouldPatch, rb) ==
  [kind |-> "return", has |-> has, patched |-> patched, wouldPatch |-> wouldPatch, rolledBack |-> rb]

\* The locals of patchFiles when it is entered.
PatchEntry ==
  /\ pc = "resolve"
  /\ patches = <<>> /\ notFound = 0 /\ deduped = 0
  /\ originalDatSize = 0 /\ originalFatSize = 0 /\ currentBlocks = 0
  /\ idxLayout = "null"
  /\ prepared = <<>> /\ newFatEntries = <<>> /\ newFatSize = 0
  /\ datAppended = FALSE /\ idxUpdated = FALSE /\ rolledBack = FALSE
  /\ pendingWrites = <<>> /\ pendingBytes = 0 /\ writePos = 0
  /\ cursor = 0
  /\ outcome = NoOutcome
  /\ ioLog = <<>>

\* No repack is running or has run.
RepackLocalsIdle ==
  /\ rpc = "none"
  /\ candidates = <<>> /\ sizeSchedule = FALSE
  /\ stb = NewStringTable /\ trie = NewTrie
  /\ validPaths = <<>> /\ validLocalPaths = <<>>
  /\ stringIndices = <<>> /\ metaIndices = <<>>
  /\ skipped = 0 /\ repDeduped = 0
  /\ scheduledPaths = <<>> /\ scheduledToOriginal = <<>>
  /\ currentBlock = 0 /\ fatEntries = <<>>
  /\ startBlocks = <<>> /\ wrappedSizes = <<>> /\ totalRawSize = 0
  /\ repOutcome = [kind |-> "none"]

RepackIdle == jobs = 1 /\ RepackLocalsIdle

NoError == [kind |-> "none", id |-> 0]

\* The compressor is not being followed event by event.
CallIdle ==
  /\ cmode = "none" /\ cpc = "none"
  /\ mailbox = <<>>
  /\ failedWith = NoError /\ errorLog = <<>>
  /\ delivered = <<>> /\ thrown = NoError

\* A meta record of all zeros, and the call and the result of a reader
\* before there is one.
NoMeta == [flags |-> 0, size |-> 0, startBlock |-> 0, extra |-> 0]
NoRaw == [length |-> 0, typ |-> 0, declaredSize |-> 0, payload |-> <<>>]
NoHeader == [fileSize |-> 0, pagesPerStripe |-> <<>>, sizes |-> <<>>]
NoCall == [op |-> "none", stringIndex |-> 0, meta |-> NoMeta, raw |-> NoRaw,
           file |-> NoHeader]
NoRead == [ok |-> TRUE, err |-> "none", bytes |-> <<>>, data |-> <<>>]

\* No reader is followed on its own.
ReadIdle ==
  /\ rdpc = "none" /\ rdCall = NoCall /\ rdOut = NoRead /\ datFd = "null"

\* No compression is in progress.
PoolIdle ==
  /\ tasks = <<>> /\ workerCount = 0 /\ nextTask = 0
  /\ busy = <<>> /\ ready = <<>> /\ results = <<>>
  /\ completed = 0 /\ yielded = 0 /\ failed = FALSE
  /\ arrivals = <<>>
  /\ CallIdle

\* No byte-level index file is under study.
IdxBytesIdle ==
  /\ ipc = "none"
  /\ writeArgs = <<>>
  /\ channelSizes = <<>> /\ idxFileSize = 0
  /\ idxPages = <<>> /\ idxPatch = <<>>
  /\ chWrite = <<>> /\ chRead = <<>>

OnArchive ==
  /\ arcId \in DOMAIN Archives
  /\ idxGeom = Archives[arcId].layout
  /\ idxDt = Archives[arcId].dt
  /\ idxStrings = Archives[arcId].strings
  /\ idxMeta = Archives[arcId].meta
  /\ idxFatSize = Archives[arcId].fatSize
  /\ idxFat = Archives[arcId].fat
  /\ datSize = Archives[arcId].datSize
  /\ dat = Archives[arcId].dat

Init ==
  /\ OnArchive
  /\ fileMap \in FileMaps
  /\ dryRun \in BOOLEAN
  /\ runs = 1
  /\ PatchEntry
  /\ RepackIdle /\ PoolIdle /\ IdxBytesIdle /\ ReadIdle

\* A dry run that reports the size of the mapping instead of the plan.
DryRunOutcome_CountsMapping(ps) ==
  IF \E i \in DOMAIN ps : ~LocalFiles[ps[i].localPath].readable
    THEN Thrown
    ELSE Returned({"patched", "wouldPatch", "notFound", "deduped", "errors"},
                  0, Len(fileMap), FALSE)

\* The dry run (lines 157-169): statSync of every target's local file for the
\* printed plan, then the return.
DryRunOutcome(ps) ==
  IF \E i \in DOMAIN ps : ~LocalFiles[ps[i].localPath].readable
    THEN Thrown
    ELSE Returned({"patched", "wouldPatch", "notFound", "deduped", "errors"},
                  0, Len(ps), FALSE)

\* Phase 1 (lines 121-169): resolve the targets; return when there are none
\* or on a dry run.
ResolveTargets ==
  /\ pc = "resolve"
  /\ LET r == ResolveAll(OpenArchive, fileMap)
     IN  /\ patches' = r.patches
         /\ notFound' = r.notFound
         /\ deduped' = r.deduped
         /\ IF r.threw
              THEN pc' = "done" /\ outcome' = Thrown
            ELSE IF Len(r.patches) = 0
              THEN /\ pc' = "done"
                   /\ outcome' = Returned({"patched", "notFound", "deduped", "errors"}, 0, 0, FALSE)
            ELSE IF dryRun
              THEN pc' = "done" /\ outcome' = DryRunOutcome(r.patches)
            ELSE pc' = "preflight" /\ outcome' = outcome
  /\ UNCHANGED <<inputVars, fileVars, preflightVars, phase2Vars, flagVars,
                 writeVars, cursor, ioLog>>

\* A preflight that does not compare the FAT size word with the entry count.
PreflightError_NoFatSizeCheck(arc, size) ==
  IF size % DAT_BLOCK_SIZE # 0 THEN "unaligned"
  ELSE IF fatEntryCount(arc) # size \div DAT_BLOCK_SIZE THEN "dat/fat mismatch"
  ELSE "none"

\* The three preflight checks, in the order of the code (lines 171-184).
PreflightError(arc, size) ==
  IF size % DAT_BLOCK_SIZE # 0 THEN "unaligned"
  ELSE IF fatEntryCount(arc) # size \div DAT_BLOCK_SIZE THEN "dat/fat mismatch"
  ELSE IF arc.fatSize # fatEntryCount(arc) * 4 THEN "fat size mismatch"
  ELSE "none"

\* Preflight (lines 171-184): the data file and the FAT must agree.
Preflight ==
  /\ pc = "preflight"
  /\ LET arc == OpenArchive
         err == PreflightError(arc, datSize)
     IN  /\ originalDatSize' = datSize
         /\ currentBlocks' = IF err = "unaligned" THEN currentBlocks
                             ELSE datSize \div DAT_BLOCK_SIZE
         /\ idxLayout' = IF err \in {"unaligned", "dat/fat mismatch"} THEN idxLayout ELSE "set"
         /\ originalFatSize' = IF err \in {"unaligned", "dat/fat mismatch"} THEN originalFatSize
                               ELSE arc.fatSize
         /\ IF err # "none"
              THEN pc' = "done" /\ outcome' = Thrown
              ELSE pc' = "prepare" /\ outcome' = outcome
  /\ UNCHANGED <<inputVars, fileVars, phase1Vars, phase2Vars, flagVars,
                 writeVars, cursor, ioLog>>

\* ------------------------------------------------------------ phase 2
\* compressSingle: the wrapped form of a local file (named by the file and
\* its length), the file's raw identity standing for its size and SHA-1.
compressSingle(filePath) ==
  [wrapped |-> [f |-> filePath, len |-> LocalFiles[filePath].wrappedLen],
   rawSize |-> filePath, rawSha1 |-> filePath]

\* compressFilesBatch: result i in slot i; it fails when a file cannot be read.
compressFilesBatch(filePaths) ==
  IF \E i \in DOMAIN filePaths : ~LocalFiles[filePaths[i]].readable
    THEN [ok |-> FALSE, results |-> <<>>]
    ELSE [ok |-> TRUE, results |-> [i \in DOMAIN filePaths |-> compressSingle(filePaths[i])]]

BlocksNeeded(wrappedSize) == (wrappedSize + DAT_BLOCK_SIZE - 1) \div DAT_BLOCK_SIZE

\* FAT words whose last one names the block after the payload.
NewFatWords_RunsOn(startBlock, blocksNeeded) ==
  [b \in 1..blocksNeeded |-> startBlock + b]

\* The FAT words of one payload (lines 209-212).
NewFatWords(startBlock, blocksNeeded) ==
  [b \in 1..blocksNeeded |->
     IF b - 1 < blocksNeeded - 1 THEN startBlock + b ELSE FAT_END]

\* A new record that writes extra as zero, as repack does.
NewMetaBytes_DropsExtra(oldMeta, wrappedSize, startBlock) ==
  packMetaRecord(OrBit0(oldMeta.flags), wrappedSize, startBlock, 0)

NewMetaBytes(oldMeta, wrappedSize, startBlock) ==
  packMetaRecord(OrBit0(oldMeta.flags), wrappedSize, startBlock, oldMeta.extra)

OldMetaBytes(oldMeta) ==
  packMetaRecord(oldMeta.flags, oldMeta.size, oldMeta.startBlock, oldMeta.extra)

\* The layout loop over the plan (lines 202-242).
RECURSIVE PrepareLoop(_, _, _, _)
PrepareLoop(ps, compressed, i, acc) ==
  IF i > Len(ps) THEN acc
  ELSE LET result == compressed[i]
           wrappedSize == result.wrapped.len
           blocksNeeded == BlocksNeeded(wrappedSize)
           startBlock == acc.blockCursor
           p == [requestedPath |-> ps[i].requestedPath,
                 archivePath |-> ps[i].archivePath,
                 localPath |-> ps[i].localPath,
                 metaIdx |-> ps[i].metaIdx,
                 oldMeta |-> ps[i].oldMeta,
                 wrapped |-> result.wrapped,
                 rawSize |-> result.rawSize,
                 rawSha1 |-> result.rawSha1,
                 wrappedSize |-> wrappedSize,
                 blocksNeeded |-> blocksNeeded,
                 startBlock |-> startBlock,
                 oldMetaBytes |-> OldMetaBytes(ps[i].oldMeta),
                 newMetaBytes |-> NewMetaBytes(ps[i].oldMeta, wrappedSize, startBlock)]
       IN  PrepareLoop(ps, compressed, i + 1,
             [prepared |-> Append(acc.prepared, p),
              newFatWords |-> acc.newFatWords \o NewFatWords(startBlock, blocksNeeded),
              blockCursor |-> acc.blockCursor + blocksNeeded])

\* A capacity check that compares an entry count with a byte capacity.
FatCapacityExceeded_CountsEntries(layout, size) == size \div 4 > ChannelCapacity(layout, 3)

\* The FAT channel must hold the grown table (lines 252-257).
FatCapacityExceeded(layout, size) == size > ChannelCapacity(layout, 3)

\* Every target slot must lie in the meta channel (lines 259-266).
MetaOutOfCapacity(layout, ps) ==
  \E i \in DOMAIN ps :
     ps[i].metaIdx * META_SIZE + META_SIZE > ChannelCapacity(layout, 2)

\* Phase 2 (lines 189-270): compress, lay out the new blocks, check the
\* channel capacities.  A failure leaves the function by the exception.
PrepareLayout(compressed) ==
  IF ~compressed.ok
    THEN /\ pc' = "done" /\ outcome' = Thrown
         /\ UNCHANGED phase2Vars
    ELSE LET r == PrepareLoop(patches, compressed.results, 1,
                    [prepared |-> <<>>, newFatWords |-> <<>>,
                     blockCursor |-> currentBlocks])
             totalNewBlocks == r.blockCursor - currentBlocks
             size == (currentBlocks + totalNewBlocks) * 4
         IN  /\ prepared' = r.prepared
             /\ newFatSize' = size
             /\ newFatEntries' = [i \in DOMAIN r.newFatWords |-> U32(r.newFatWords[i])]
             /\ IF FatCapacityExceeded(idxGeom, size)
                     \/ MetaOutOfCapacity(idxGeom, r.prepared)
                  THEN pc' = "done" /\ outcome' = Thrown
                  ELSE pc' = "commit" /\ outcome' = outcome

\* Phase 2 with the batch compressor taken as one step.
Prepare ==
  /\ pc = "prepare"
  /\ PrepareLayout(compressFilesBatch([i \in DOMAIN patches |-> patches[i].localPath]))
  /\ UNCHANGED <<inputVars, fileVars, phase1Vars, preflightVars, flagVars,
                 writeVars, cursor, ioLog>>

\* ------------------------------------------------------------ phase 3
Max(a, b) == IF a > b THEN a ELSE b

\* The blocks a payload puts in the data file: its wrapped bytes, the last
\* block zero padded.
PayloadBlocks(wrapped) ==
  [c \in 1..BlocksNeeded(wrapped.len) |-> [f |-> wrapped.f, c |-> c - 1]]

\* A positioned write of whole blocks at byte offset pos (block aligned).
WriteBlocks(d, pos, blocks) ==
  LET first == pos \div DAT_BLOCK_SIZE
  IN  [b \in 1..Max(Len(d), first + Len(blocks)) |->
         IF b - 1 >= first /\ b - 1 < first + Len(blocks) THEN blocks[b - first]
         ELSE IF b <= Len(d) THEN d[b]
         ELSE Reserved]

\* A commit that does not compare the size of the data file with the preflight's.
CommitOpen_NoSizeCheck ==
  /\ pc = "commit"
  /\ pc' = "enqueue"
  /\ writePos' = datSize
  /\ pendingWrites' = <<>>
  /\ pendingBytes' = 0
  /\ cursor' = 1
  /\ UNCHANGED <<inputVars, fileVars, phase1Vars, preflightVars, phase2Vars,
                 flagVars, outcome, ioLog>>

\* Lines 272-290: open the data file; its size must still be the preflight's.
CommitOpen ==
  /\ pc = "commit"
  /\ IF datSize # originalDatSize
       THEN pc' = "catch" /\ UNCHANGED <<writeVars, cursor>>
       ELSE /\ pc' = "enqueue"
            /\ writePos' = datSize
            /\ pendingWrites' = <<>>
            /\ pendingBytes' = 0
            /\ cursor' = 1
  /\ UNCHANGED <<inputVars, fileVars, phase1Vars, preflightVars, phase2Vars,
                 flagVars, outcome, ioLog>>

\* flushWrites (lines 295-303) with `n` of the pending blocks reaching the
\* file: all of them, or fewer when writev throws part-way.
FlushWrites(n, nextPc) ==
  IF Len(pendingWrites) = 0
    THEN /\ n = 0
         /\ pc' = nextPc
         /\ UNCHANGED <<dat, datSize, writeVars, ioLog>>
    ELSE /\ n \in 0..Len(pendingWrites)
         /\ dat' = WriteBlocks(dat, writePos, SubSeq(pendingWrites, 1, n))
         /\ datSize' = Max(datSize, writePos + n * DAT_BLOCK_SIZE)
         /\ ioLog' = IF n > 0 THEN Append(ioLog, <<"dat", "write", writePos>>) ELSE ioLog
         /\ IF n = Len(pendingWrites)
              THEN /\ pc' = nextPc
                   /\ writePos' = writePos + pendingBytes
                   /\ pendingWrites' = <<>>
                   /\ pendingBytes' = 0
              ELSE /\ pc' = "catch"
                   /\ UNCHANGED writeVars

\* One iteration of the append loop (lines 305-314).
DatEnqueue ==
  /\ pc = "enqueue"
  /\ cursor <= Len(prepared)
  /\ LET patch == prepared[cursor]
         padSize == patch.blocksNeeded * DAT_BLOCK_SIZE - patch.wrapped.len
         bytes == pendingBytes + patch.wrapped.len + (IF padSize > 0 THEN padSize ELSE 0)
         queue == pendingWrites \o PayloadBlocks(patch.wrapped)
     IN  IF bytes >= writeThreshold
           THEN \E n \in 0..Len(queue) :
                  /\ dat' = WriteBlocks(dat, writePos, SubSeq(queue, 1, n))
                  /\ datSize' = Max(datSize, writePos + n * DAT_BLOCK_SIZE)
                  /\ ioLog' = IF n > 0 THEN Append(ioLog, <<"dat", "write", writePos>>) ELSE ioLog
                  /\ IF n = Len(queue)
                       THEN /\ pc' = pc
                            /\ writePos' = writePos + bytes
                            /\ pendingWrites' = <<>>
                            /\ pendingBytes' = 0
                       ELSE /\ pc' = "catch"
                            /\ pendingWrites' = queue
                            /\ pendingBytes' = bytes
                            /\ UNCHANGED writePos
           ELSE /\ pendingWrites' = queue
                /\ pendingBytes' = bytes
                /\ UNCHANGED <<dat, datSize, writePos, pc, ioLog>>
  /\ cursor' = cursor + 1
  /\ UNCHANGED <<inputVars, idxMeta, idxFatSize, idxFat, phase1Vars, preflightVars,
                 phase2Vars, flagVars, outcome>>

\* The flush after the loop (line 315).
DatFinalFlush ==
  /\ pc = "enqueue"
  /\ cursor > Len(prepared)
  /\ \E n \in 0..Len(pendingWrites) : FlushWrites(n, "datFsync")
  /\ UNCHANGED <<inputVars, idxMeta, idxFatSize, idxFat, phase1Vars, preflightVars,
                 phase2Vars, flagVars, cursor, outcome>>

\* A commit that goes on to the index file without the fsync of the data file.
DatFsync_NoSync ==
  /\ pc = "datFsync"
  /\ datAppended' = TRUE
  /\ pc' = "idxFat"
  /\ UNCHANGED <<inputVars, fileVars, phase1Vars, preflightVars, phase2Vars,
                 idxUpdated, rolledBack, writeVars, cursor, outcome, ioLog>>

\* fsync and close of the data file, then datAppended = true (lines 316-320).
DatFsync ==
  /\ pc = "datFsync"
  /\ \E ok \in BOOLEAN :
       IF ok
         THEN /\ ioLog' = Append(ioLog, <<"dat", "fsync", 0>>)
              /\ datAppended' = TRUE
              /\ pc' = "idxFat"
         ELSE /\ pc' = "catch"
              /\ UNCHANGED <<ioLog, datAppended>>
  /\ UNCHANGED <<inputVars, fileVars, phase1Vars, preflightVars, phase2Vars,
                 idxUpdated, rolledBack, writeVars, cursor, outcome>>

\* A write of the words at the start of the FAT channel.
WriteFatWords_FromStart(fat, channelOffset, words) ==
  [b \in DOMAIN fat |-> IF b <= Len(words) THEN words[b] ELSE fat[b]]

\* writeIdxChannelBytes on the FAT channel: words at a channel byte offset.
WriteFatWords(fat, channelOffset, words) ==
  LET first == channelOffset \div 4
  IN  [b \in DOMAIN fat |->
         IF b - 1 >= first /\ b - 1 < first + Len(words) THEN words[b - first] ELSE fat[b]]

\* writeIdxChannelBytes on the meta channel: one record at slot metaIdx.
WriteMetaSlot(meta, metaIdx, bytes) ==
  [m \in DOMAIN meta |-> IF m - 1 = metaIdx THEN bytes ELSE meta[m]]

\* The new FAT entries, at channel offset originalFatSize (line 327).
IdxWriteFat ==
  /\ pc = "idxFat"
  /\ \E ok \in BOOLEAN :
       IF ok
         THEN /\ idxFat' = WriteFatWords(idxFat, originalFatSize, newFatEntries)
              /\ ioLog' = IF Len(newFatEntries) > 0
                            THEN Append(ioLog, <<"idx", "fat", originalFatSize>>)
                            ELSE ioLog
              /\ pc' = "idxHdr"
         ELSE /\ pc' = "catch"
              /\ UNCHANGED <<idxFat, ioLog>>
  /\ UNCHANGED <<inputVars, idxMeta, idxFatSize, datSize, dat, phase1Vars,
                 preflightVars, phase2Vars, flagVars, writeVars, cursor, outcome>>

\* The FAT size header word (line 328).
IdxWriteHdr ==
  /\ pc = "idxHdr"
  /\ \E ok \in BOOLEAN :
       IF ok
         THEN /\ idxFatSize' = U32(newFatSize)
              /\ ioLog' = Append(ioLog, <<"idx", "hdr", newFatSize>>)
              /\ pc' = "idxMeta"
              /\ cursor' = 1
         ELSE /\ pc' = "catch"
              /\ UNCHANGED <<idxFatSize, ioLog, cursor>>
  /\ UNCHANGED <<inputVars, idxMeta, idxFat, datSize, dat, phase1Vars,
                 preflightVars, phase2Vars, flagVars, writeVars, outcome>>

\* One target meta slot (lines 329-331).
IdxWriteMeta ==
  /\ pc = "idxMeta"
  /\ cursor <= Len(prepared)
  /\ \E ok \in BOOLEAN :
       IF ok
         THEN /\ idxMeta' = WriteMetaSlot(idxMeta, prepared[cursor].metaIdx,
                                          prepared[cursor].newMetaBytes)
              /\ ioLog' = Append(ioLog, <<"idx", "meta", prepared[cursor].metaIdx>>)
              /\ cursor' = cursor + 1
              /\ pc' = pc
         ELSE /\ pc' = "catch"
              /\ UNCHANGED <<idxMeta, ioLog, cursor>>
  /\ UNCHANGED <<inputVars, idxFatSize, idxFat, datSize, dat, phase1Vars,
                 preflightVars, phase2Vars, flagVars, writeVars, outcome>>

\* fsync and close of the index file, then idxUpdated = true (lines 332-336).
IdxFsync ==
  /\ pc = "idxMeta"
  /\ cursor > Len(prepared)
  /\ \E ok \in BOOLEAN :
       IF ok
         THEN /\ ioLog' = Append(ioLog, <<"idx", "fsync", 0>>)
              /\ idxUpdated' = TRUE
              /\ pc' = "verify"
         ELSE /\ pc' = "catch"
              /\ UNCHANGED <<ioLog, idxUpdated>>
  /\ UNCHANGED <<inputVars, fileVars, phase1Vars, preflightVars, phase2Vars,
                 datAppended, rolledBack, writeVars, cursor, outcome>>

\* ------------------------------------------------------------ phase 4
\* readRawMetaBytes: the bytes along the FAT chain, as (block token, bytes
\* taken) pairs; ok is FALSE where the code throws.  readFault makes the
\* first read come back short.
RECURSIVE ReadChain(_, _, _, _, _, _, _)
ReadChain(arc, d, dSize, block, remaining, left, out) ==
  IF left = 0 THEN [ok |-> remaining = 0, data |-> out]
  ELSE LET take == IF remaining >= DAT_BLOCK_SIZE THEN DAT_BLOCK_SIZE ELSE remaining
           datOff == block * DAT_BLOCK_SIZE
       IN  IF datOff + take > dSize \/ block + 1 > Len(d)
             THEN [ok |-> FALSE, data |-> out]
           ELSE LET got == Append(out, <<d[block + 1], take>>)
                IN  IF remaining - take <= 0 THEN [ok |-> TRUE, data |-> got]
                    ELSE IF block * 4 + 4 > arc.fatSize
                      THEN [ok |-> FALSE, data |-> got]
                    ELSE IF arc.fat[block + 1] = FAT_END
                      THEN [ok |-> FALSE, data |-> got]
                    ELSE ReadChain(arc, d, dSize, arc.fat[block + 1],
                                   remaining - take, left - 1, got)

\* A reader that counts whole blocks only.
readRawMetaBytes_WholeBlocks(arc, d, dSize, meta, readFault) ==
  IF meta.size = 0 THEN [ok |-> TRUE, data |-> <<>>]
  ELSE IF meta.startBlock = FAT_END \/ readFault THEN [ok |-> FALSE, data |-> <<>>]
  ELSE ReadChain(arc, d, dSize, meta.startBlock, meta.size, meta.size \div 512, <<>>)

readRawMetaBytes(arc, d, dSize, meta, readFault) ==
  IF meta.size = 0 THEN [ok |-> TRUE, data |-> <<>>]
  ELSE IF meta.startBlock = FAT_END \/ readFault THEN [ok |-> FALSE, data |-> <<>>]
  ELSE ReadChain(arc, d, dSize, meta.startBlock, meta.size,
                 (meta.size + 511) \div 512, <<>>)

\* The bytes of a wrapped payload, as readRawMetaBytes returns them.
WrappedData(wrapped) ==
  [c \in 1..BlocksNeeded(wrapped.len) |->
     << [f |-> wrapped.f, c |-> c - 1],
        IF c * DAT_BLOCK_SIZE <= wrapped.len THEN DAT_BLOCK_SIZE
        ELSE wrapped.len - (c - 1) * DAT_BLOCK_SIZE >>]

\* decodeFilePayload: the raw identity of the local file whose wrapped form
\* the bytes are; 0 for bytes that are no local file's wrapped form (inflate
\* throws or gives other bytes).
decodeFilePayload(raw) ==
  LET fs == {f \in DOMAIN LocalFiles :
               LocalFiles[f].readable /\ raw = WrappedData(compressSingle(f).wrapped)}
  IN  IF fs = {} THEN 0 ELSE CHOOSE f \in fs : TRUE

\* readFileBytes on the re-opened archive: the raw identity, 0 on an error.
readFileBytes(arc, d, dSize, metaIndex, readFault) ==
  IF ~MetaInRange(arc, metaIndex) THEN 0
  ELSE LET raw == readRawMetaBytes(arc, d, dSize, metaRecord(arc, metaIndex), readFault)
       IN  IF raw.ok THEN decodeFilePayload(raw.data) ELSE 0

\* The verify loop's error count (lines 341-361).
VerifyErrors(arc, d, dSize, ps, readFault) ==
  Cardinality({i \in DOMAIN ps :
     LET extracted == readFileBytes(arc, d, dSize, ps[i].metaIdx, readFault /\ i = 1)
     IN  extracted # ps[i].rawSize \/ extracted # ps[i].rawSha1})

\* Phase 4 (lines 339-370): re-open the archive and read every patched
\* entry back; a read of the data file may fail.
Verify ==
  /\ pc = "verify"
  /\ \E readFault \in BOOLEAN :
       LET errors == VerifyErrors(OpenArchive, dat, datSize, prepared, readFault)
       IN  IF errors > 0
             THEN pc' = "catch" /\ outcome' = outcome
             ELSE /\ pc' = "done"
                  /\ outcome' = Returned({"patched", "notFound", "deduped", "errors", "rolledBack"},
                                         Len(prepared), 0, rolledBack)
  /\ UNCHANGED <<inputVars, fileVars, phase1Vars, preflightVars, phase2Vars,
                 flagVars, writeVars, cursor, ioLog>>

\* ------------------------------------------------------------ rollback
\* rollbackPatch (lines 65-94): the files after it, and its system calls.
RECURSIVE RestoreMeta(_, _, _)
RestoreMeta(meta, recs, i) ==
  IF i > Len(recs) THEN meta
  ELSE RestoreMeta(WriteMetaSlot(meta, recs[i].metaIdx, recs[i].oldMetaBytes), recs, i + 1)

Truncate(d, size) ==
  [b \in 1..((size + DAT_BLOCK_SIZE - 1) \div DAT_BLOCK_SIZE) |->
     IF b <= Len(d) THEN d[b] ELSE Reserved]

\* A rollback that forgets the FAT size header word.
rollbackPatch_KeepsFatSize(origDatSize, origFatSize, metaOldRecords) ==
  /\ dat' = Truncate(dat, origDatSize)
  /\ datSize' = origDatSize
  /\ idxMeta' = RestoreMeta(idxMeta, metaOldRecords, 1)
  /\ UNCHANGED <<idxFatSize, idxFat>>
  /\ ioLog' = ioLog \o << <<"dat", "truncate", origDatSize>>, <<"dat", "fsync", 0>> >>
                    \o [i \in DOMAIN metaOldRecords |-> <<"idx", "meta", metaOldRecords[i].metaIdx>>]
                    \o << <<"idx", "fsync", 0>> >>

rollbackPatch(origDatSize, origFatSize, metaOldRecords) ==
  /\ dat' = Truncate(dat, origDatSize)
  /\ datSize' = origDatSize
  /\ idxMeta' = RestoreMeta(idxMeta, metaOldRecords, 1)
  /\ idxFatSize' = U32(origFatSize)
  /\ idxFat' = idxFat
  /\ ioLog' = ioLog \o << <<"dat", "truncate", origDatSize>>, <<"dat", "fsync", 0>> >>
                    \o [i \in DOMAIN metaOldRecords |-> <<"idx", "meta", metaOldRecords[i].metaIdx>>]
                    \o << <<"idx", "hdr", origFatSize>>, <<"idx", "fsync", 0>> >>

\* A catch block that rolls back without looking at datAppended/idxUpdated.
Catch_AlwaysRollsBack ==
  /\ pc = "catch"
  /\ rollbackPatch(originalDatSize, originalFatSize,
        [i \in DOMAIN prepared |->
           [metaIdx |-> prepared[i].metaIdx, oldMetaBytes |-> prepared[i].oldMetaBytes]])
  /\ rolledBack' = TRUE
  /\ pc' = "rethrow"
  /\ UNCHANGED <<inputVars, phase1Vars, preflightVars, phase2Vars, datAppended,
                 idxUpdated, writeVars, cursor, outcome>>

\* The catch block up to the rollback (lines 371-387).
Catch ==
  /\ pc = "catch"
  /\ IF (datAppended \/ idxUpdated) /\ idxLayout # "null"
       THEN /\ rollbackPatch(originalDatSize, originalFatSize,
                 [i \in DOMAIN prepared |->
                    [metaIdx |-> prepared[i].metaIdx, oldMetaBytes |-> prepared[i].oldMetaBytes]])
            /\ rolledBack' = TRUE
       ELSE UNCHANGED <<fileVars, ioLog, rolledBack>>
  /\ pc' = "rethrow"
  /\ UNCHANGED <<inputVars, phase1Vars, preflightVars, phase2Vars, datAppended,
                 idxUpdated, writeVars, cursor, outcome>>

\* `throw e` (lines 388-389): the caller gets the error, not a PatchStats.
Rethrow ==
  /\ pc = "rethrow"
  /\ pc' = "done"
  /\ outcome' = Thrown
  /\ UNCHANGED <<inputVars, fileVars, phase1Vars, preflightVars, phase2Vars,
                 flagVars, writeVars, cursor, ioLog>>

Next ==
  \/ ResolveTargets
  \/ Preflight
  \/ Prepare
  \/ CommitOpen
  \/ DatEnqueue
  \/ DatFinalFlush
  \/ DatFsync
  \/ IdxWriteFat
  \/ IdxWriteHdr
  \/ IdxWriteMeta
  \/ IdxFsync
  \/ Verify
  \/ Catch
  \/ Rethrow

Spec == Init /\ [][Next]_vars

\* ------------------------------------------------------------ a second writer
\* Another process sets the length of the data file (ftruncate: it cuts the
\* file or extends it with zeroes) after the statSync of the preflight
\* (line 170) and before the commit opens the file (line 283).
OtherWriter ==
  /\ pc \in {"prepare", "commit"}
  /\ datSize = originalDatSize
  /\ \E size \in {datSize - DAT_BLOCK_SIZE, datSize + 100, datSize + DAT_BLOCK_SIZE} :
       /\ size >= 0
       /\ datSize' = size
       /\ dat' = Truncate(dat, size)
       /\ ioLog' = Append(ioLog, <<"dat", "foreign", size>>)
  /\ UNCHANGED <<inputVars, idxMeta, idxFatSize, idxFat, pc, phase1Vars, preflightVars,
                 phase2Vars, flagVars, writeVars, cursor, outcome>>

OtherWriterNext == Next \/ OtherWriter

OtherWriterSpec == Init /\ [][OtherWriterNext]_vars

\* ------------------------------------------------------------ index writer
PAGE_SIZE == 4096
DEFAULT_PPS == <<4, 8, 1, 4>>

\* Math.floor((a + b - 1) / b)
CeilDiv(a, b) == (a + b - 1) \div b

SumSeq(q) == LET RECURSIVE Sum(_)
                 Sum(i) == IF i > Len(q) THEN 0 ELSE q[i] + Sum(i + 1)
             IN  Sum(1)

\* A stripe count taken from the first channel alone.
writeIdxStripes_FirstChannel(sizes, pageSize, pagesPerStripe) ==
  CeilDiv(CeilDiv(sizes[1], pageSize), pagesPerStripe[1])

\* writeIdx lines 21-29: the stripes the channel buffers need.
writeIdxStripes(sizes, pageSize, pagesPerStripe) ==
  LET RECURSIVE Loop(_, _)
      Loop(i, stripes) ==
        IF i > Len(sizes) THEN stripes
        ELSE LET pagesNeeded == CeilDiv(sizes[i], pageSize)
                 needed == CeilDiv(pagesNeeded, pagesPerStripe[i])
             IN  Loop(i + 1, IF needed > stripes THEN needed ELSE stripes)
  IN  Loop(1, 0)

\* writeIdx lines 31-33: the length of the file.
writeIdxFileSize(sizes, pageSize, pagesPerStripe) ==
  LET totalDataPages == writeIdxStripes(sizes, pageSize, pagesPerStripe) * SumSeq(pagesPerStripe)
      totalPages == 1 + totalDataPages
  IN  totalPages * pageSize

\* chanPrefix / chanPrefixPages: the pages of a stripe before channel ch (0-based).
ChanPrefix(pagesPerStripe, ch) == SumSeq(SubSeq(pagesPerStripe, 1, ch))

\* physOffset / physOffsetForChannelPage
physOffset(pageSize, pagesPerStripe, channel, channelPage) ==
  LET pps == pagesPerStripe[channel + 1]
      stripe == channelPage \div pps
      pageInStripe == channelPage % pps
      physPage == stripe * SumSeq(pagesPerStripe) + ChanPrefix(pagesPerStripe, channel)
                    + pageInStripe
  IN  pageSize + physPage * pageSize

\* ------------------------------------------------------------ PriusIdx
PageSizeCandidates == <<512, 1024, 2048, 4096, 8192, 16384, 32768>>

\* A page-size inference that always takes the smallest viable candidate.
inferPageSize_Smallest(fileSize, pagesPerStripe, sizes) ==
  LET sumPages == SumSeq(pagesPerStripe)
      viable == {pageSize \in {PageSizeCandidates[i] : i \in DOMAIN PageSizeCandidates} :
                   /\ sumPages > 0
                   /\ fileSize % pageSize = 0
                   /\ fileSize \div pageSize >= 2
                   /\ ((fileSize \div pageSize) - 1) % sumPages = 0
                   /\ \A c \in DOMAIN sizes :
                        sizes[c] <= (((fileSize \div pageSize) - 1) \div sumPages)
                                      * pagesPerStripe[c] * pageSize}
  IN  IF viable = {} THEN 0
      ELSE CHOOSE v \in viable : \A w \in viable : v <= w

\* inferPageSize (lines 101-145): 0 stands for its two errors, "Invalid
\* pages-per-stripe configuration" and "Could not infer idx page size".
inferPageSize(fileSize, pagesPerStripe, sizes) ==
  LET sumPages == SumSeq(pagesPerStripe)
      viable == {pageSize \in {PageSizeCandidates[i] : i \in DOMAIN PageSizeCandidates} :
                   /\ fileSize % pageSize = 0
                   /\ fileSize \div pageSize >= 2
                   /\ ((fileSize \div pageSize) - 1) % sumPages = 0
                   /\ \A c \in DOMAIN sizes :
                        sizes[c] <= (((fileSize \div pageSize) - 1) \div sumPages)
                                      * pagesPerStripe[c] * pageSize}
  IN  IF sumPages <= 0 THEN 0
      ELSE IF viable = {} THEN 0
      ELSE IF 4096 \in viable THEN 4096
      ELSE CHOOSE v \in viable : \A w \in viable : v <= w

\* new PriusIdx(idxPath): the geometry the reader works with.
PriusIdx(fileSize, pagesPerStripe, sizes) ==
  LET pageSize == inferPageSize(fileSize, pagesPerStripe, sizes)
  IN  [pageSize |-> pageSize,
       stripes |-> IF pageSize = 0 THEN 0
                   ELSE ((fileSize \div pageSize) - 1) \div SumSeq(pagesPerStripe),
       pagesPerStripe |-> pagesPerStripe]

\* ------------------------------------------------------------ repack
\* Longest file list handed to repack, and most patchFiles runs on its archive.
MaxFiles == 2
MaxRuns == 2

\* The candidate archive paths of the model: "A\B", "a/b", "b", "B" and "c".
CandidatePaths == { <<65, 92, 66>>, <<97, 47, 98>>, <<98>>, <<66>>, <<99>> }

\* path.join(root, srcArcPath) on the input tree of the model: the local file
\* at that path, 0 where there is none.  "c" exists but cannot be read.
LocalPathOf(srcArcPath) ==
  CASE srcArcPath = <<97, 47, 98>> -> 1
    [] srcArcPath = <<98>> -> 2
    [] srcArcPath = <<66>> -> 1
    [] srcArcPath = <<99>> -> 3
    [] OTHER -> 0

\* fs.stat(path).size of the local files.
LocalSize(localPath) ==
  CASE localPath = 1 -> 600
    [] localPath = 2 -> 900
    [] OTHER -> 50

FileLists == UNION { [1..n -> CandidatePaths] : n \in 1..MaxFiles }

\* A phase 1 that remembers a key before it looks at the local file.
IndexLoop_SeenBeforeStat(cands, i, acc) ==
  LET RECURSIVE Loop(_, _)
      Loop(j, a) ==
        IF j > Len(cands) THEN a
        ELSE LET arcPath == normalizeArchivePath(cands[j])
                 localPath == LocalPathOf(cands[j])
             IN  IF arcPath \in a.seenPaths
                   THEN Loop(j + 1, [a EXCEPT !.deduped = @ + 1])
                 ELSE IF localPath = 0
                   THEN Loop(j + 1, [a EXCEPT !.skipped = @ + 1,
                                              !.seenPaths = @ \cup {arcPath}])
                 ELSE LET added == StringTableAdd(a.stb, arcPath)
                      IN  Loop(j + 1,
                            [a EXCEPT !.seenPaths = @ \cup {arcPath},
                                      !.stb = added.stb,
                                      !.stringIndices = Append(@, added.idx),
                                      !.metaIndices = Append(@, Len(a.validPaths)),
                                      !.validPaths = Append(@, arcPath),
                                      !.validLocalPaths = Append(@, localPath)])
  IN  Loop(i, acc)

\* Phase 1 (lines 89-123), with a file list: the candidates in list order.
RECURSIVE IndexLoop(_, _, _)
IndexLoop(cands, i, acc) ==
  IF i > Len(cands) THEN acc
  ELSE LET arcPath == normalizeArchivePath(cands[i])
           localPath == LocalPathOf(cands[i])
       IN  IF arcPath \in acc.seenPaths
             THEN IndexLoop(cands, i + 1, [acc EXCEPT !.deduped = @ + 1])
           ELSE IF localPath = 0
             THEN IndexLoop(cands, i + 1, [acc EXCEPT !.skipped = @ + 1])
           ELSE LET added == StringTableAdd(acc.stb, arcPath)
                IN  IndexLoop(cands, i + 1,
                      [acc EXCEPT !.seenPaths = @ \cup {arcPath},
                                  !.stb = added.stb,
                                  !.stringIndices = Append(@, added.idx),
                                  !.metaIndices = Append(@, Len(acc.validPaths)),
                                  !.validPaths = Append(@, arcPath),
                                  !.validLocalPaths = Append(@, localPath)])

IndexStart ==
  [stb |-> NewStringTable, seenPaths |-> {}, validPaths |-> <<>>,
   validLocalPaths |-> <<>>, stringIndices |-> <<>>, metaIndices |-> <<>>,
   skipped |-> 0, deduped |-> 0]

\* The index and the data file before repack has written them.
NoFiles ==
  /\ idxGeom = [pageSize |-> 0, stripes |-> 0, pagesPerStripe |-> <<0, 0, 0, 0>>]
  /\ idxDt = <<>> /\ idxStrings = <<>> /\ idxMeta = <<>>
  /\ idxFatSize = 0 /\ idxFat = <<>>
  /\ datSize = 0 /\ dat = <<>>

\* patchFiles has not been called.
PatchIdle ==
  /\ arcId = 0 /\ fileMap = <<>> /\ dryRun = FALSE
  /\ pc = "idle"
  /\ patches = <<>> /\ notFound = 0 /\ deduped = 0
  /\ originalDatSize = 0 /\ originalFatSize = 0 /\ currentBlocks = 0
  /\ idxLayout = "null"
  /\ prepared = <<>> /\ newFatEntries = <<>> /\ newFatSize = 0
  /\ datAppended = FALSE /\ idxUpdated = FALSE /\ rolledBack = FALSE
  /\ pendingWrites = <<>> /\ pendingBytes = 0 /\ writePos = 0
  /\ cursor = 0
  /\ outcome = NoOutcome
  /\ ioLog = <<>>

RepackInit ==
  /\ candidates \in FileLists
  /\ sizeSchedule \in BOOLEAN
  /\ jobs \in {1, 2}
  /\ rpc = "phase1"
  /\ stb = NewStringTable /\ trie = NewTrie
  /\ validPaths = <<>> /\ validLocalPaths = <<>>
  /\ stringIndices = <<>> /\ metaIndices = <<>>
  /\ skipped = 0 /\ repDeduped = 0
  /\ scheduledPaths = <<>> /\ scheduledToOriginal = <<>>
  /\ currentBlock = 0 /\ fatEntries = <<>>
  /\ startBlocks = <<>> /\ wrappedSizes = <<>> /\ totalRawSize = 0
  /\ repOutcome = [kind |-> "none"]
  /\ runs = 0
  /\ NoFiles /\ PatchIdle /\ PoolIdle /\ IdxBytesIdle /\ ReadIdle

patchVars == <<arcId, fileMap, dryRun, pc, phase1Vars, preflightVars, phase2Vars,
               flagVars, writePos, cursor, outcome, ioLog, runs>>
idxFileVars == <<idxStaticVars, idxMeta, idxFatSize, idxFat>>

\* Phases 1 and 2 (lines 89-138): the keys, the string table and the trie.
RepackIndex ==
  /\ rpc = "phase1"
  /\ LET r == IndexLoop(candidates, 1, IndexStart)
     IN  /\ stb' = r.stb
         /\ validPaths' = r.validPaths
         /\ validLocalPaths' = r.validLocalPaths
         /\ stringIndices' = r.stringIndices
         /\ metaIndices' = r.metaIndices
         /\ skipped' = r.skipped
         /\ repDeduped' = r.deduped
         /\ trie' = buildFromKeys(NewTrie, r.validPaths, r.stringIndices, r.metaIndices, 1)
         /\ IF buildFromKeys(NewTrie, r.validPaths, r.stringIndices, r.metaIndices, 1).threw
              THEN rpc' = "rdone" /\ repOutcome' = [kind |-> "throw"]
              ELSE rpc' = "phase3" /\ repOutcome' = repOutcome
  /\ UNCHANGED <<candidates, sizeSchedule, jobs, scheduledPaths, scheduledToOriginal,
                 currentBlock, fatEntries, startBlocks, wrappedSizes, totalRawSize,
                 patchVars, idxFileVars, datSize, dat, pendingWrites,
                 pendingBytes, poolVars, idxByteVars, callVars, readVars>>

\* A job count that is not cut to the number of tasks.
normalizeJobs_Uncut(n, maxValue) == Max(1, n)

\* normalizeJobs(jobs, maxValue) for a requested job count above zero.
normalizeJobs(n, maxValue) ==
  IF maxValue <= 0 THEN 1 ELSE Max(1, Min(n, maxValue))

\* Lines 163-181: descending by size, ties by original index.  The result is
\* scheduledToOriginal, with 0-based original indices.
SizeSchedule(paths) ==
  LET n == Len(paths)
      Before(a, b) == \/ LocalSize(paths[a + 1]) > LocalSize(paths[b + 1])
                      \/ /\ LocalSize(paths[a + 1]) = LocalSize(paths[b + 1])
                         /\ a < b
  IN  CHOOSE q \in [1..n -> 0..(n - 1)] :
        /\ \A i, j \in 1..n : i # j => q[i] # q[j]
        /\ \A i, j \in 1..n : i < j => Before(q[i], q[j])

\* The start of compressFilesStream / compressFilesBatch with a pool (lines
\* 137-147, 197-208 and 232-244, 293-304): one task to each worker.
PoolStart(filePaths, requestedJobs) ==
  LET n == Len(filePaths)
      wc == normalizeJobs(requestedJobs, n)
  IN  /\ tasks' = filePaths
      /\ workerCount' = IF n = 0 THEN 0 ELSE wc
      /\ busy' = IF n = 0 \/ wc <= 1 THEN <<>> ELSE [w \in 1..wc |-> w - 1]
      /\ nextTask' = IF n = 0 \/ wc <= 1 THEN 0 ELSE wc
      /\ ready' = <<>>
      /\ results' = [i \in 1..n |-> "empty"]
      /\ completed' = 0 /\ yielded' = 0 /\ failed' = FALSE
      /\ arrivals' = <<>>

\* An open that reserves block 0 of the data file but no FAT entry for it.
RepackOpen_NoReservedEntry ==
  /\ rpc = "phase3"
  /\ LET n == Len(validLocalPaths)
         activeJobs == normalizeJobs(jobs, n)
         perm == SizeSchedule(validLocalPaths)
     IN  /\ IF sizeSchedule /\ n > 1
              THEN /\ scheduledPaths' = [i \in 1..n |-> validLocalPaths[perm[i] + 1]]
                   /\ scheduledToOriginal' = perm
              ELSE /\ scheduledPaths' = validLocalPaths
                   /\ scheduledToOriginal' = <<>>
         /\ PoolStart(IF sizeSchedule /\ n > 1
                        THEN [i \in 1..n |-> validLocalPaths[perm[i] + 1]]
                        ELSE validLocalPaths, activeJobs)
         /\ startBlocks' = [i \in 1..n |-> 0]
         /\ wrappedSizes' = [i \in 1..n |-> 0]
  /\ currentBlock' = 1
  /\ fatEntries' = <<>>
  /\ totalRawSize' = 0
  /\ dat' = <<Reserved>>
  /\ datSize' = DAT_BLOCK_SIZE
  /\ pendingWrites' = <<>>
  /\ pendingBytes' = 0
  /\ rpc' = "stream"
  /\ UNCHANGED <<candidates, sizeSchedule, jobs, stb, trie, validPaths, validLocalPaths,
                 stringIndices, metaIndices, skipped, repDeduped, repOutcome,
                 patchVars, idxFileVars, idxByteVars, callVars, readVars>>

\* Lines 140-207: the job count, the schedule, the data file with its
\* reserved block 0; then the compression stream is started.
RepackOpen ==
  /\ rpc = "phase3"
  /\ LET n == Len(validLocalPaths)
         activeJobs == normalizeJobs(jobs, n)
         perm == SizeSchedule(validLocalPaths)
     IN  /\ IF sizeSchedule /\ n > 1
              THEN /\ scheduledPaths' = [i \in 1..n |-> validLocalPaths[perm[i] + 1]]
                   /\ scheduledToOriginal' = perm
              ELSE /\ scheduledPaths' = validLocalPaths
                   /\ scheduledToOriginal' = <<>>
         /\ PoolStart(IF sizeSchedule /\ n > 1
                        THEN [i \in 1..n |-> validLocalPaths[perm[i] + 1]]
                        ELSE validLocalPaths, activeJobs)
         /\ startBlocks' = [i \in 1..n |-> 0]
         /\ wrappedSizes' = [i \in 1..n |-> 0]
  /\ currentBlock' = 1
  /\ fatEntries' = <<0>>
  /\ totalRawSize' = 0
  /\ dat' = <<Reserved>>
  /\ datSize' = DAT_BLOCK_SIZE
  /\ pendingWrites' = <<>>
  /\ pendingBytes' = 0
  /\ rpc' = "stream"
  /\ UNCHANGED <<candidates, sizeSchedule, jobs, stb, trie, validPaths, validLocalPaths,
                 stringIndices, metaIndices, skipped, repDeduped, repOutcome,
                 patchVars, idxFileVars, idxByteVars, callVars, readVars>>

repackInputs == <<candidates, sizeSchedule, jobs>>
phase12Vars == <<stb, trie, validPaths, validLocalPaths, stringIndices, metaIndices,
                 skipped, repDeduped>>
scheduleVars == <<scheduledPaths, scheduledToOriginal>>
layoutVars == <<currentBlock, fatEntries, startBlocks, wrappedSizes, totalRawSize>>

\* The message a worker posts for task `index` (0-based) of `filePaths`.
WorkerResult(filePaths, index) ==
  [index |-> index,
   wrapped |-> compressSingle(filePaths[index + 1]).wrapped,
   rawSize |-> compressSingle(filePaths[index + 1]).rawSize,
   rawSha1 |-> compressSingle(filePaths[index + 1]).rawSha1]

\* FAT entries whose last word runs on into the next file's first block.
RepackFatWords_RunsOn(block, blocksNeeded) ==
  [b \in 1..blocksNeeded |-> block + b]

\* The FAT entries of one result (lines 223-226).
RepackFatWords(block, blocksNeeded) ==
  [b \in 1..blocksNeeded |-> IF b - 1 < blocksNeeded - 1 THEN block + b ELSE FAT_END]

\* A loop body that files a result under its position in the schedule.
RepackTake_IgnoresSchedule(result) ==
  LET originalIndex == result.index
      blocksNeeded == (result.wrapped.len + DAT_BLOCK_SIZE - 1) \div DAT_BLOCK_SIZE
      bytes == pendingBytes + blocksNeeded * DAT_BLOCK_SIZE
      queue == pendingWrites \o PayloadBlocks(result.wrapped)
  IN  /\ totalRawSize' = totalRawSize + LocalSize(result.rawSize)
      /\ wrappedSizes' = [wrappedSizes EXCEPT ![originalIndex + 1] = result.wrapped.len]
      /\ startBlocks' = [startBlocks EXCEPT ![originalIndex + 1] = currentBlock]
      /\ IF bytes >= writeThreshold
           THEN /\ dat' = dat \o queue
                /\ datSize' = datSize + bytes
                /\ pendingWrites' = <<>> /\ pendingBytes' = 0
           ELSE /\ pendingWrites' = queue /\ pendingBytes' = bytes
                /\ UNCHANGED <<dat, datSize>>
      /\ fatEntries' = fatEntries \o RepackFatWords(currentBlock, blocksNeeded)
      /\ currentBlock' = currentBlock + blocksNeeded

\* The body of the for-await loop (lines 210-231) for one result.
RepackTake(result) ==
  LET originalIndex == IF scheduledToOriginal # <<>>
                         THEN scheduledToOriginal[result.index + 1] ELSE result.index
      blocksNeeded == (result.wrapped.len + DAT_BLOCK_SIZE - 1) \div DAT_BLOCK_SIZE
      bytes == pendingBytes + blocksNeeded * DAT_BLOCK_SIZE
      queue == pendingWrites \o PayloadBlocks(result.wrapped)
  IN  /\ totalRawSize' = totalRawSize + LocalSize(result.rawSize)
      /\ wrappedSizes' = [wrappedSizes EXCEPT ![originalIndex + 1] = result.wrapped.len]
      /\ startBlocks' = [startBlocks EXCEPT ![originalIndex + 1] = currentBlock]
      /\ IF bytes >= writeThreshold
           THEN /\ dat' = dat \o queue
                /\ datSize' = datSize + bytes
                /\ pendingWrites' = <<>> /\ pendingBytes' = 0
           ELSE /\ pendingWrites' = queue /\ pendingBytes' = bytes
                /\ UNCHANGED <<dat, datSize>>
      /\ fatEntries' = fatEntries \o RepackFatWords(currentBlock, blocksNeeded)
      /\ currentBlock' = currentBlock + blocksNeeded

\* The error leaves repack through `finally`: the data file is closed with
\* the pending writes dropped, and no index file is written.
RepackThrow ==
  /\ rpc' = "rdone"
  /\ repOutcome' = [kind |-> "throw"]
  /\ UNCHANGED <<layoutVars, dat, datSize, pendingWrites, pendingBytes>>

\* compressFilesStream without a pool (lines 223-230): the next file is
\* compressed on the coordinator and handed to the loop body.
InlineYield ==
  /\ rpc = "stream"
  /\ workerCount <= 1
  /\ yielded < Len(tasks)
  /\ IF LocalFiles[tasks[yielded + 1]].readable
       THEN /\ RepackTake(WorkerResult(tasks, yielded))
            /\ yielded' = yielded + 1
            /\ UNCHANGED <<rpc, repOutcome>>
       ELSE /\ RepackThrow
            /\ UNCHANGED yielded
  /\ UNCHANGED <<repackInputs, phase12Vars, scheduleVars, patchVars, idxFileVars,
                 tasks, workerCount, nextTask, busy, ready, results, completed,
                 failed, arrivals, idxByteVars, callVars, readVars>>

\* onMessage of the stream (lines 276-291): worker w posts the result or the
\* error of its task; a result is queued and the worker gets the next task.
WorkerDone(w) ==
  /\ rpc = "stream"
  /\ workerCount > 1
  /\ busy[w] >= 0
  /\ IF LocalFiles[tasks[busy[w] + 1]].readable
       THEN /\ ready' = Append(ready, WorkerResult(tasks, busy[w]))
            /\ arrivals' = Append(arrivals, busy[w])
            /\ completed' = completed + 1
            /\ IF ~failed /\ nextTask < Len(tasks)
                 THEN busy' = [busy EXCEPT ![w] = nextTask] /\ nextTask' = nextTask + 1
                 ELSE busy' = [busy EXCEPT ![w] = -1] /\ nextTask' = nextTask
            /\ UNCHANGED failed
       ELSE /\ failed' = TRUE
            /\ busy' = [busy EXCEPT ![w] = -1]
            /\ UNCHANGED <<ready, completed, nextTask, arrivals>>
  /\ UNCHANGED <<repackInputs, phase12Vars, scheduleVars, layoutVars, repOutcome, rpc,
                 patchVars, idxFileVars, dat, datSize, pendingWrites, pendingBytes,
                 tasks, workerCount, results, yielded, idxByteVars, callVars, readVars>>

\* The generator yields the oldest queued result (lines 308-312).
StreamYield ==
  /\ rpc = "stream"
  /\ workerCount > 1
  /\ yielded < Len(tasks)
  /\ ready # <<>>
  /\ RepackTake(Head(ready))
  /\ ready' = Tail(ready)
  /\ yielded' = yielded + 1
  /\ UNCHANGED <<repackInputs, phase12Vars, scheduleVars, repOutcome, rpc,
                 patchVars, idxFileVars, tasks, workerCount, nextTask, busy,
                 results, completed, failed, arrivals, idxByteVars, callVars, readVars>>

\* The generator throws the worker's error once the queue is drained
\* (lines 313-315).
StreamThrow ==
  /\ rpc = "stream"
  /\ workerCount > 1
  /\ yielded < Len(tasks)
  /\ ready = <<>>
  /\ failed
  /\ RepackThrow
  /\ UNCHANGED <<repackInputs, phase12Vars, scheduleVars, patchVars, idxFileVars,
                 poolVars, idxByteVars, callVars, readVars>>

DT_NODE_SIZE == 20
STRING_RECORD_SIZE == 64

\* The FAT words of the model's index file.  The page tail behind the table
\* is zero filled by writeIdx; the model keeps as many words of it as the
\* runs of the model can reach (two blocks for the largest payload).
FatWindow == 1 + 2 * MaxFiles + 2 * MaxTargets * MaxRuns

FatImage(words, layout) ==
  [b \in 1..Min(ChannelCapacity(layout, 3) \div 4, FatWindow) |->
     IF b <= Len(words) THEN words[b] ELSE 0]

\* Lines 233-292: the last flush, the meta and FAT buffers, and writeIdx with
\* its default page size and pages per stripe.  The index variables hold the
\* file as a reader opens it.
RepackFinish ==
  /\ rpc = "stream"
  /\ yielded = Len(tasks)
  /\ dat' = dat \o pendingWrites
  /\ datSize' = datSize + pendingBytes
  /\ pendingWrites' = <<>>
  /\ pendingBytes' = 0
  /\ LET n == Len(validPaths)
         sizes == << Len(trie.nodes) * DT_NODE_SIZE, Len(stb.records) * STRING_RECORD_SIZE,
                     n * META_SIZE, Len(fatEntries) * 4 >>
         idxSize == writeIdxFileSize(sizes, PAGE_SIZE, DEFAULT_PPS)
         geom == PriusIdx(idxSize, DEFAULT_PPS, sizes)
     IN  /\ idxGeom' = geom
         /\ idxDt' = trie.nodes
         /\ idxStrings' = stb.records
         /\ idxMeta' = [i \in 1..n |-> packMetaRecord(1, wrappedSizes[i], startBlocks[i], 0)]
         /\ idxFatSize' = Len(fatEntries) * 4
         /\ idxFat' = FatImage([i \in DOMAIN fatEntries |-> U32(fatEntries[i])], geom)
         /\ repOutcome' = [kind |-> "return", files |-> n, skipped |-> skipped,
                           deduped |-> repDeduped, rawSize |-> totalRawSize,
                           datSize |-> datSize + pendingBytes, idxSize |-> idxSize]
  /\ rpc' = "rdone"
  /\ UNCHANGED <<repackInputs, phase12Vars, scheduleVars, layoutVars, patchVars,
                 poolVars, idxByteVars, callVars, readVars>>

\* ------------------------------------------------------------ patch runs
\* The queries of the runs that follow a repack: "a/b" and "b".
SeqQueries == { <<97, 47, 98>>, <<98>> }

SeqFileMaps ==
  {m \in FileMaps : \A i \in DOMAIN m : m[i].requestedPath \in SeqQueries}

\* The last run left the archive as a finished run does: it returned, or it
\* rolled back, or it threw before its first write.
RunSettled == outcome.kind = "return" \/ rolledBack \/ ioLog = <<>>

\* patchFiles is called on the archive repack wrote, or on the archive the
\* previous run left.  repack has returned by then: its locals are gone.
StartPatch ==
  /\ rpc = "rdone"
  /\ repOutcome.kind = "return"
  /\ runs < MaxRuns
  /\ pc = "idle" \/ (pc = "done" /\ RunSettled)
  /\ fileMap' \in SeqFileMaps
  /\ dryRun' \in BOOLEAN
  /\ runs' = runs + 1
  /\ pc' = "resolve"
  /\ patches' = <<>> /\ notFound' = 0 /\ deduped' = 0
  /\ originalDatSize' = 0 /\ originalFatSize' = 0 /\ currentBlocks' = 0
  /\ idxLayout' = "null"
  /\ prepared' = <<>> /\ newFatEntries' = <<>> /\ newFatSize' = 0
  /\ datAppended' = FALSE /\ idxUpdated' = FALSE /\ rolledBack' = FALSE
  /\ pendingWrites' = <<>> /\ pendingBytes' = 0 /\ writePos' = 0
  /\ cursor' = 0
  /\ outcome' = NoOutcome
  /\ ioLog' = <<>>
  /\ candidates' = <<>> /\ sizeSchedule' = FALSE /\ jobs' = 1
  /\ stb' = NewStringTable /\ trie' = NewTrie
  /\ validPaths' = <<>> /\ validLocalPaths' = <<>>
  /\ stringIndices' = <<>> /\ metaIndices' = <<>>
  /\ skipped' = 0 /\ repDeduped' = 0
  /\ scheduledPaths' = <<>> /\ scheduledToOriginal' = <<>>
  /\ currentBlock' = 0 /\ fatEntries' = <<>>
  /\ startBlocks' = <<>> /\ wrappedSizes' = <<>> /\ totalRawSize' = 0
  /\ tasks' = <<>> /\ workerCount' = 0 /\ nextTask' = 0
  /\ busy' = <<>> /\ ready' = <<>> /\ results' = <<>>
  /\ completed' = 0 /\ yielded' = 0 /\ failed' = FALSE
  /\ arrivals' = <<>>
  /\ UNCHANGED <<arcId, rpc, repOutcome, idxFileVars, datSize, dat, idxByteVars, callVars, readVars>>

RepackNext ==
  \/ RepackIndex
  \/ RepackOpen
  \/ InlineYield
  \/ \E w \in DOMAIN busy : WorkerDone(w)
  \/ StreamYield
  \/ StreamThrow
  \/ RepackFinish
  \/ StartPatch
  \/ Next

RepackSpec == RepackInit /\ [][RepackNext]_vars

\* ------------------------------------------------------------ batch pool
\* Phase 2 of patchFiles with compressFilesBatch spelled out: the workers
\* answer in any order.
PoolInit ==
  /\ OnArchive
  /\ fileMap \in FileMaps
  /\ dryRun = FALSE
  /\ runs = 1
  /\ PatchEntry
  /\ jobs \in {1, 2}
  /\ RepackLocalsIdle
  /\ PoolIdle /\ IdxBytesIdle /\ ReadIdle

batchInputs == <<arcId, fileMap, dryRun, idxStaticVars, runs, repackVars, idxByteVars, callVars, readVars>>

\* Lines 191-200 and 126-147, 197-208: the pool is created and every worker
\* gets a task.
BatchStart ==
  /\ pc = "prepare"
  /\ pc' = "batch"
  /\ PoolStart([i \in DOMAIN patches |-> patches[i].localPath],
               normalizeJobs(jobs, Len(patches)))
  /\ UNCHANGED <<batchInputs, fileVars, phase1Vars, preflightVars, phase2Vars,
                 flagVars, writeVars, cursor, outcome, ioLog>>

\* Lines 127-135: without a pool the files are compressed in order on the
\* coordinator, and the layout loop follows.
BatchInline ==
  /\ pc = "batch"
  /\ workerCount <= 1
  /\ PrepareLayout(compressFilesBatch(tasks))
  /\ UNCHANGED <<inputVars, fileVars, phase1Vars, preflightVars, flagVars,
                 writeVars, cursor, ioLog>>

\* A message handler that files the results in the order they come in.
StoreResult_ByArrival(slots, msg) ==
  [slots EXCEPT ![completed + 1] = msg]

\* Lines 186-191: the result goes to the slot of its task.
StoreResult(slots, msg) ==
  [slots EXCEPT ![msg.index + 1] = msg]

\* onMessage of the batch (lines 180-195): worker w posts the result or the
\* error of its task.  Messages that come in after the promise is settled
\* change nothing the caller sees.
BatchWorkerDone(w) ==
  /\ pc = "batch"
  /\ workerCount > 1
  /\ ~failed
  /\ busy[w] >= 0
  /\ IF LocalFiles[tasks[busy[w] + 1]].readable
       THEN /\ results' = StoreResult(results, WorkerResult(tasks, busy[w]))
            /\ arrivals' = Append(arrivals, busy[w])
            /\ completed' = completed + 1
            /\ IF nextTask < Len(tasks)
                 THEN busy' = [busy EXCEPT ![w] = nextTask] /\ nextTask' = nextTask + 1
                 ELSE busy' = [busy EXCEPT ![w] = -1] /\ nextTask' = nextTask
            /\ UNCHANGED failed
       ELSE /\ failed' = TRUE
            /\ busy' = [busy EXCEPT ![w] = -1]
            /\ UNCHANGED <<results, arrivals, completed, nextTask>>
  /\ UNCHANGED <<batchInputs, tasks, workerCount, ready, yielded, fileVars, pc,
                 phase1Vars, preflightVars, phase2Vars, flagVars, writeVars,
                 cursor, outcome, ioLog>>

\* maybeComplete (lines 162-170) resolves the promise with the slots, and the
\* layout loop of patchFiles (lines 202-263) runs on them.
BatchResolve ==
  /\ pc = "batch"
  /\ workerCount > 1
  /\ ~failed
  /\ completed = Len(tasks)
  /\ PrepareLayout([ok |-> TRUE, results |-> results])
  /\ UNCHANGED <<inputVars, fileVars, phase1Vars, preflightVars, flagVars,
                 writeVars, cursor, ioLog>>

\* fail (lines 154-160) rejects the promise: phase 2 throws.
BatchReject ==
  /\ pc = "batch"
  /\ workerCount > 1
  /\ failed
  /\ PrepareLayout([ok |-> FALSE, results |-> <<>>])
  /\ UNCHANGED <<inputVars, fileVars, phase1Vars, preflightVars, flagVars,
                 writeVars, cursor, ioLog>>

PoolNext ==
  \/ ResolveTargets
  \/ Preflight
  \/ BatchStart
  \/ BatchInline
  \/ \E w \in DOMAIN busy : BatchWorkerDone(w)
  \/ BatchResolve
  \/ BatchReject
  \/ CommitOpen
  \/ DatEnqueue
  \/ DatFinalFlush
  \/ DatFsync
  \/ IdxWriteFat
  \/ IdxWriteHdr
  \/ IdxWriteMeta
  \/ IdxFsync
  \/ Verify
  \/ Catch
  \/ Rethrow

PoolSpec == PoolInit /\ [][PoolNext]_vars

\* ------------------------------------------------------------ builders
\* The locals of repack that the builders do not use, at rest.
BuilderRest ==
  /\ candidates = <<>> /\ sizeSchedule = FALSE /\ jobs = 1
  /\ validLocalPaths = <<>>
  /\ skipped = 0 /\ repDeduped = 0
  /\ scheduledPaths = <<>> /\ scheduledToOriginal = <<>>
  /\ currentBlock = 0 /\ fatEntries = <<>>
  /\ startBlocks = <<>> /\ wrappedSizes = <<>> /\ totalRawSize = 0
  /\ repOutcome = [kind |-> "none"]
  /\ runs = 0
  /\ NoFiles /\ PatchIdle /\ PoolIdle /\ IdxBytesIdle /\ ReadIdle

builderRestVars ==
  <<candidates, sizeSchedule, jobs, validLocalPaths, skipped, repDeduped,
    scheduledPaths, scheduledToOriginal, currentBlock, fatEntries, startBlocks,
    wrappedSizes, totalRawSize, repOutcome, runs, arcId, fileMap, dryRun,
    idxStaticVars, poolVars, idxByteVars, callVars, readVars, fileVars, pc, phase1Vars, preflightVars,
    phase2Vars, flagVars, writeVars, cursor, outcome, ioLog>>

\* Keys of one and two bytes over 0x00, "a" and "b".
MaxKeys == 3
TrieBytes == {0, 97, 98}
TrieKeys == {<<x>> : x \in TrieBytes} \cup {<<x, y>> : x, y \in TrieBytes}

KeyLists == UNION { [1..n -> TrieKeys] : n \in 1..MaxKeys }

\* buildFromKeys on a list of keys, repeated keys included: the string indices
\* of phase 1 are there, the trie holds the sentinel.
TrieInit ==
  /\ validPaths \in KeyLists
  /\ rpc = "phase2"
  /\ stb = AddStrings(NewStringTable, validPaths, 1, <<>>).stb
  /\ stringIndices = AddStrings(NewStringTable, validPaths, 1, <<>>).indices
  /\ metaIndices = [i \in DOMAIN validPaths |-> i - 1]
  /\ trie = NewTrie
  /\ BuilderRest

\* One iteration of the loop of buildFromKeys (lines 47-118).
TrieStep ==
  /\ rpc = "phase2"
  /\ ~trie.threw
  /\ Len(trie.nodes) <= Len(validPaths)
  /\ LET i == Len(trie.nodes)
     IN  trie' = TrieInsert(trie, validPaths[i], stringIndices[i], metaIndices[i])
  /\ UNCHANGED <<rpc, validPaths, stb, stringIndices, metaIndices, builderRestVars>>

TrieNext == TrieStep

TrieSpec == TrieInit /\ [][TrieNext]_vars

\* Keys of 1, 59, 60, 61, 120 and 121 bytes, none of them NUL.
MaxStrings == 3
StringLengths == {1, 59, 60, 61, 120, 121}
StringKeys == { [k \in 1..n |-> 97 + ((k + n) % 5)] : n \in StringLengths }

StringLists == UNION { [1..n -> StringKeys] : n \in 1..MaxStrings }

\* repack phase 1 reduced to its calls of StringTableBuilder.add.
StringInit ==
  /\ validPaths \in StringLists
  /\ rpc = "strings"
  /\ stb = NewStringTable
  /\ stringIndices = <<>>
  /\ metaIndices = <<>>
  /\ trie = NewTrie
  /\ BuilderRest

\* stb.add(key, arcPath) for the next key (line 111 of repack).
StringStep ==
  /\ rpc = "strings"
  /\ Len(stringIndices) < Len(validPaths)
  /\ LET r == StringTableAdd(stb, validPaths[Len(stringIndices) + 1])
     IN  /\ stb' = r.stb
         /\ stringIndices' = Append(stringIndices, r.idx)
  /\ UNCHANGED <<rpc, validPaths, metaIndices, trie, builderRestVars>>

StringNext == StringStep

StringSpec == StringInit /\ [][StringNext]_vars

\* ------------------------------------------------------------ index file bytes
\* The bytes of the channel buffers handed to writeIdx: byte o of channel c.
\* They stay within 1..200; the bytes written in place are 201 and up.
DataByte(c, o) == 1 + ((c * 50 + o) % 200)

\* The pageSize and pagesPerStripe arguments of writeIdx, the defaults among them.
IdxArgs == { [pageSize |-> p, pagesPerStripe |-> q] :
               p \in {512, PAGE_SIZE}, q \in {DEFAULT_PPS, <<1, 2, 1, 1>>} }

\* The lengths of the dt, string, meta and FAT buffers.  The smallest are those
\* of an archive without files: the sentinel node, string record 0, no meta
\* record and FAT entry 0.
IdxSizes == { <<40, 128, 32, 16>>, <<40, 640, 32, 520>>, <<2100, 128, 32, 16>>,
              <<40, 128, 600, 16>>, <<40, 128, 4100, 16>>, <<20, 64, 0, 4>> }

\* The data of a write in place.
IdxData == { <<255>>, <<201, 202, 203, 204>> }

\* Everything outside the index file of this section is at rest.
IdxRest ==
  /\ runs = 0
  /\ idxDt = <<>> /\ idxStrings = <<>> /\ idxMeta = <<>>
  /\ idxFatSize = 0 /\ idxFat = <<>>
  /\ datSize = 0 /\ dat = <<>>
  /\ PatchIdle /\ RepackIdle /\ PoolIdle /\ ReadIdle

idxRestVars ==
  <<runs, idxDt, idxStrings, fileVars, arcId, fileMap, dryRun, pc, phase1Vars,
    preflightVars, phase2Vars, flagVars, writeVars, cursor, outcome, ioLog,
    repackVars, poolVars, callVars, readVars>>

\* writeIdx lines 63-71: the page of the file each channel page is written to;
\* a later write to the same place replaces an earlier one.
writeIdxPages(sizes, pageSize, pagesPerStripe) ==
  LET written == UNION { { <<ch, pg>> : pg \in 0..(CeilDiv(sizes[ch + 1], pageSize) - 1) }
                         : ch \in 0..(Len(sizes) - 1) }
      PhysPage(t) == (physOffset(pageSize, pagesPerStripe, t[1], t[2]) \div pageSize) - 1
  IN  [pp \in {PhysPage(t) : t \in written} |->
         CHOOSE t \in written :
           /\ PhysPage(t) = pp
           /\ \A u \in written :
                PhysPage(u) = pp => (u[1] < t[1] \/ (u[1] = t[1] /\ u[2] <= t[2]))]

\* The index file: the page size it was written with, the channel sizes of its
\* header, its pages and the bytes written in place since.
IdxFile == [pageSize |-> writeArgs.pageSize, sizes |-> channelSizes,
            pages |-> idxPages, patch |-> idxPatch]

\* The byte of the file at offset f of a data page: a chunk is the channel's
\* bytes followed by zeroes (Buffer.alloc), a page never written is zeroes
\* (ftruncate).
FileByte(file, f) ==
  IF f \in DOMAIN file.patch THEN file.patch[f]
  ELSE LET pp == (f \div file.pageSize) - 1
       IN  IF pp \in DOMAIN file.pages
           THEN LET c == file.pages[pp][1]
                    o == file.pages[pp][2] * file.pageSize + (f % file.pageSize)
                IN  IF o < file.sizes[c + 1] THEN DataByte(c, o) ELSE 0
           ELSE 0

\* A reader that takes every channel to start at the front of its stripe.
physOffsetForChannelPage_NoPrefix(idx, channel, channelPage) ==
  LET pps == idx.pagesPerStripe[channel + 1]
      stripe == channelPage \div pps
      pageInStripe == channelPage % pps
      physPage == stripe * SumSeq(idx.pagesPerStripe) + pageInStripe
  IN  idx.pageSize + physPage * idx.pageSize

\* PriusIdx.physOffsetForChannelPage, with sumPages and chanPrefixPages as the
\* constructor computes them (lines 83-90).
physOffsetForChannelPage(idx, channel, channelPage) ==
  LET pps == idx.pagesPerStripe[channel + 1]
      sumPages == SumSeq(idx.pagesPerStripe)
      chanPrefixPages == [c \in 1..Len(idx.pagesPerStripe) |->
                            SumSeq(SubSeq(idx.pagesPerStripe, 1, c - 1))]
      stripe == channelPage \div pps
      pageInStripe == channelPage % pps
      physPage == stripe * sumPages + chanPrefixPages[channel + 1] + pageInStripe
  IN  idx.pageSize + physPage * idx.pageSize

\* PriusIdx.channelOffsetToFileOffset
channelOffsetToFileOffset(idx, channel, channelOffset) ==
  LET page == channelOffset \div idx.pageSize
      inPage == channelOffset % idx.pageSize
  IN  physOffsetForChannelPage(idx, channel, page) + inPage

\* PriusIdx.readChannel: the pages of the channel in order, cut to sizeBytes.
readChannel(idx, file, channel) ==
  [i \in 1..file.sizes[channel + 1] |->
     FileByte(file, channelOffsetToFileOffset(idx, channel, i - 1))]

\* A write that puts all of data behind the first file offset.
writeIdxChannelBytes_OneWrite(idx, channel, channelOffset, data) ==
  LET fileOff == channelOffsetToFileOffset(idx, channel, channelOffset)
  IN  [k \in 1..Len(data) |-> <<fileOff + k - 1, data[k]>>]

\* writeIdxChannelBytes: the <<file offset, byte>> pairs it writes, in order.
writeIdxChannelBytes(idx, channel, channelOffset, data) ==
  LET RECURSIVE Loop(_, _, _)
      Loop(off, cur, written) ==
        IF cur >= Len(data) THEN written
        ELSE LET fileOff == channelOffsetToFileOffset(idx, channel, off)
                 room == idx.pageSize - (off % idx.pageSize)
                 take == Min(room, Len(data) - cur)
             IN  Loop(off + take, cur + take,
                      written \o [k \in 1..take |-> <<fileOff + k - 1, data[cur + k]>>])
  IN  Loop(channelOffset, 0, <<>>)

\* fs.writeSync of each pair on top of the bytes already written in place.
ApplyWrites(patch, writes) ==
  LET offs == DOMAIN patch \cup {writes[k][1] : k \in DOMAIN writes}
      LastAt(f) == CHOOSE k \in DOMAIN writes :
                     /\ writes[k][1] = f
                     /\ \A j \in DOMAIN writes : writes[j][1] = f => j <= k
  IN  [f \in offs |-> IF \E k \in DOMAIN writes : writes[k][1] = f
                      THEN writes[LastAt(f)][2] ELSE patch[f]]

\* The channel offsets a write of data starts at: the start of the channel,
\* across its first page boundary, and around the end of its bytes.  A write
\* stays within the capacity of the channel.
IdxOffsets(idx, sizes, channel, data) ==
  { off \in {0, idx.pageSize - 2, sizes[channel + 1] - Len(data),
             sizes[channel + 1] - 1, sizes[channel + 1]} :
      off >= 0 /\ off + Len(data) <= ChannelCapacity(idx, channel) }

IdxInit ==
  /\ ipc = "write"
  /\ writeArgs \in IdxArgs
  /\ channelSizes \in IdxSizes
  /\ idxFileSize = 0 /\ idxPages = <<>> /\ idxPatch = <<>>
  /\ chWrite = <<>> /\ chRead = <<>>
  /\ idxGeom = [pageSize |-> 0, stripes |-> 0, pagesPerStripe |-> <<0, 0, 0, 0>>]
  /\ IdxRest

\* writeIdx(outIdx, dtData, stringData, metaData, fatData, pageSize, pagesPerStripe)
WriteIdx ==
  /\ ipc = "write"
  /\ idxFileSize' = writeIdxFileSize(channelSizes, writeArgs.pageSize,
                                     writeArgs.pagesPerStripe)
  /\ idxPages' = writeIdxPages(channelSizes, writeArgs.pageSize,
                               writeArgs.pagesPerStripe)
  /\ ipc' = "written"
  /\ UNCHANGED <<writeArgs, channelSizes, idxPatch, chWrite, chRead, idxGeom,
                 idxRestVars>>

\* new PriusIdx(idxPath) on the file: the header gives pagesPerStripe and the
\* channel sizes, the page size is inferred.
OpenIdx ==
  /\ ipc = "written"
  /\ LET idx == PriusIdx(idxFileSize, writeArgs.pagesPerStripe, channelSizes)
     IN  /\ idxGeom' = idx
         /\ ipc' = IF idx.pageSize = 0 THEN "throw" ELSE "open"
  /\ UNCHANGED <<writeArgs, channelSizes, idxFileSize, idxPages, idxPatch, chWrite,
                 chRead, idxRestVars>>

\* writeIdxChannelBytes(fd, idx, channel, channelOffset, data)
WriteChannelBytes ==
  /\ ipc = "open"
  /\ \E channel \in 0..3, data \in IdxData :
       \E off \in IdxOffsets(idxGeom, channelSizes, channel, data) :
         /\ chWrite' = [channel |-> channel, channelOffset |-> off, data |-> data]
         /\ idxPatch' = ApplyWrites(idxPatch,
                                    writeIdxChannelBytes(idxGeom, channel, off, data))
  /\ ipc' = "patched"
  /\ UNCHANGED <<writeArgs, channelSizes, idxFileSize, idxPages, chRead, idxGeom,
                 idxRestVars>>

\* new PriusIdx(idxPath).readChannel(channel) after the write.
ReadChannel ==
  /\ ipc = "patched"
  /\ LET idx == PriusIdx(idxFileSize, writeArgs.pagesPerStripe, channelSizes)
     IN  /\ idxGeom' = idx
         /\ chRead' = [reopened |-> TRUE,
                       bytes |-> readChannel(idx, IdxFile, chWrite.channel)]
  /\ ipc' = "read"
  /\ UNCHANGED <<writeArgs, channelSizes, idxFileSize, idxPages, idxPatch, chWrite,
                 idxRestVars>>

\* readChannel(channel) of the PriusIdx the write went through: its mm is the
\* file as it was read by the constructor (line 58).
ReadChannelOfOpenIdx ==
  /\ ipc = "patched"
  /\ chRead' = [reopened |-> FALSE,
                bytes |-> readChannel(idxGeom, [IdxFile EXCEPT !.patch = <<>>],
                                      chWrite.channel)]
  /\ ipc' = "read"
  /\ UNCHANGED <<writeArgs, channelSizes, idxFileSize, idxPages, idxPatch, chWrite,
                 idxGeom, idxRestVars>>

\* readChannel(channel) of the file as writeIdx left it.
ReadWrittenChannel ==
  /\ ipc = "open"
  /\ \E channel \in 0..3 :
       /\ chWrite' = [channel |-> channel, channelOffset |-> 0, data |-> <<>>]
       /\ chRead' = [reopened |-> FALSE, bytes |-> readChannel(idxGeom, IdxFile, channel)]
  /\ ipc' = "fetched"
  /\ UNCHANGED <<writeArgs, channelSizes, idxFileSize, idxPages, idxPatch, idxGeom,
                 idxRestVars>>

IdxNext ==
  \/ WriteIdx \/ OpenIdx \/ WriteChannelBytes \/ ReadChannel \/ ReadChannelOfOpenIdx
  \/ ReadWrittenChannel

IdxSpec == IdxInit /\ [][IdxNext]_vars

\* ------------------------------------------------------------ compressor on the event loop
\* compressFilesStream and compressFilesBatch with a pool, followed handler by
\* handler.  The main thread runs one handler at a time and runs it to the
\* end, together with the promise continuations it wakes; the workers are
\* threads and raise their events at any time.  The consumer of the stream is
\* the loop body of repack, which never awaits.
MaxTasks == 4

\* Most workers that die of themselves during one call.
MaxExits == 1

\* Files 1 (readable) and 3 (unreadable), two tasks or more.
TaskLists == UNION { [1..n -> {1, 3}] : n \in 2..MaxTasks }

TaskError(index) == [kind |-> "task", id |-> index]
CrashError(w) == [kind |-> "crash", id |-> w]
ExitError(w) == [kind |-> "exit", id |-> w]

\* What the handlers of one call read and write.
CallState ==
  [busy |-> busy, nextTask |-> nextTask, ready |-> ready, results |-> results,
   completed |-> completed, failed |-> failed, failedWith |-> failedWith,
   errorLog |-> errorLog, arrivals |-> arrivals, cpc |-> cpc]

\* A dispatch that does not look at the failure.
dispatch_IgnoresFailure(s, w, stop) ==
  IF s.nextTask >= Len(tasks) THEN s
  ELSE [s EXCEPT !.busy[w] = IF @ = -2 THEN -2 ELSE s.nextTask,
                 !.nextTask = @ + 1]

\* dispatch (lines 172-178, 261-267): stop is `settled` or `failed`.  A task
\* posted to a worker that is gone is lost.
dispatch(s, w, stop) ==
  IF stop \/ s.nextTask >= Len(tasks) THEN s
  ELSE [s EXCEPT !.busy[w] = IF @ = -2 THEN -2 ELSE s.nextTask,
                 !.nextTask = @ + 1]

\* A notify that wakes nobody.
notify_Lost(s) == s

\* notify (lines 246-253): the coordinator waiting in waitForEvent resumes.
notify(s) == IF s.cpc = "waiting" THEN [s EXCEPT !.cpc = "loop"] ELSE s

\* fail of the stream (lines 269-274)
streamFail(s, err) ==
  LET logged == [s EXCEPT !.errorLog = Append(@, err)]
  IN  IF ~s.failed
        THEN notify([logged EXCEPT !.failed = TRUE, !.failedWith = err])
        ELSE logged

\* fail of the batch (lines 154-160): terminateAll starts, reject follows it.
batchFail(s, err) ==
  LET logged == [s EXCEPT !.errorLog = Append(@, err)]
  IN  IF s.cpc # "pending" THEN logged
      ELSE [logged EXCEPT !.failed = TRUE, !.failedWith = err, !.cpc = "closing"]

\* maybeComplete (lines 162-170)
maybeComplete(s) ==
  IF s.cpc # "pending" \/ s.completed # Len(tasks) THEN s
  ELSE [s EXCEPT !.cpc = "closing"]

\* onMessage of the stream (lines 276-291)
streamOnMessage(s, w, ev) ==
  IF ev.type = "error" THEN streamFail(s, TaskError(ev.index))
  ELSE notify(dispatch([s EXCEPT !.ready = Append(@, WorkerResult(tasks, ev.index)),
                                 !.arrivals = Append(@, ev.index),
                                 !.completed = @ + 1],
                       w, s.failed))

\* onMessage of the batch (lines 180-195)
batchOnMessage(s, w, ev) ==
  IF ev.type = "error" THEN batchFail(s, TaskError(ev.index))
  ELSE maybeComplete(
         dispatch([s EXCEPT !.results = StoreResult(@, WorkerResult(tasks, ev.index)),
                            !.arrivals = Append(@, ev.index),
                            !.completed = @ + 1],
                  w, s.cpc # "pending"))

\* The "exit" handlers (lines 202-206, 298-302) for a code other than 0.
streamOnExit(s, w) ==
  IF ~s.failed /\ s.completed < Len(tasks) THEN streamFail(s, ExitError(w)) ELSE s

batchOnExit(s, w) ==
  IF s.cpc = "pending" /\ s.completed < Len(tasks) THEN batchFail(s, ExitError(w)) ELSE s

\* The handler the event of worker w goes to.
Handle(s, w, ev) ==
  CASE ev.type \in {"result", "error"} ->
         IF cmode = "stream" THEN streamOnMessage(s, w, ev) ELSE batchOnMessage(s, w, ev)
    [] ev.type = "crash" ->
         IF cmode = "stream" THEN streamFail(s, CrashError(w)) ELSE batchFail(s, CrashError(w))
    [] OTHER ->
         IF cmode = "stream" THEN streamOnExit(s, w) ELSE batchOnExit(s, w)

\* A main thread that runs handlers in the middle of the coordinator's loop.
MainIdle_Always == TRUE

\* The main thread is back in the event loop: the stream awaits
\* waitForEvent (line 319), the batch promise is pending, or terminate() is
\* awaited (lines 151, 322).
MainIdle == cpc \in {"waiting", "pending", "closing"}

callRestVars ==
  <<runs, idxStaticVars, fileVars, arcId, fileMap, dryRun, pc, phase1Vars,
    preflightVars, phase2Vars, flagVars, writeVars, cursor, outcome, ioLog,
    rpc, candidates, sizeSchedule, jobs, stb, trie, validPaths, validLocalPaths,
    stringIndices, metaIndices, skipped, repDeduped, scheduledPaths,
    scheduledToOriginal, currentBlock, fatEntries, startBlocks, wrappedSizes,
    totalRawSize, repOutcome, idxByteVars, readVars, cmode, tasks, workerCount>>

\* A slot of new Array(tasks.length) that no result was stored in.
EmptySlot ==
  [index |-> -1, wrapped |-> [f |-> 0, len |-> 0], rawSize |-> 0, rawSha1 |-> 0]

\* The call has created its workers and given each its first task (lines
\* 197-208, 293-304); the stream has run to its first waitForEvent.
CompressInit ==
  /\ cmode \in {"stream", "batch"}
  /\ tasks \in TaskLists
  /\ jobs \in {2, 3}
  /\ workerCount = normalizeJobs(jobs, Len(tasks))
  /\ busy = [w \in 1..workerCount |-> w - 1]
  /\ nextTask = workerCount
  /\ ready = <<>>
  /\ results = [i \in 1..Len(tasks) |-> EmptySlot]
  /\ completed = 0 /\ yielded = 0 /\ failed = FALSE
  /\ arrivals = <<>>
  /\ cpc = IF cmode = "stream" THEN "waiting" ELSE "pending"
  /\ mailbox = [w \in 1..workerCount |-> <<>>]
  /\ failedWith = NoError /\ errorLog = <<>>
  /\ delivered = <<>> /\ thrown = NoError
  /\ runs = 0
  /\ NoFiles /\ PatchIdle /\ RepackLocalsIdle /\ IdxBytesIdle /\ ReadIdle

\* The workers exist until terminate() has resolved.
CallOpen == cpc \in {"waiting", "loop", "pending", "closing"}

\* The worker finishes its task and posts the result, or the error message
\* when the file cannot be read.
WorkerPost(w) ==
  /\ CallOpen
  /\ w \in DOMAIN busy
  /\ busy[w] >= 0
  /\ mailbox' = [mailbox EXCEPT ![w] =
       Append(@, [type |-> IF LocalFiles[tasks[busy[w] + 1]].readable
                             THEN "result" ELSE "error",
                  index |-> busy[w]])]
  /\ busy' = [busy EXCEPT ![w] = -1]
  /\ UNCHANGED <<callRestVars, nextTask, ready, results, completed, yielded,
                 failed, arrivals, cpc, failedWith, errorLog, delivered, thrown>>

\* The worker dies: of an uncaught exception while it works on a task (an
\* "error" event, then "exit"), or with an exit code other than 0.
WorkerExit(w) ==
  /\ CallOpen
  /\ w \in DOMAIN busy
  /\ busy[w] >= -1
  /\ Cardinality({v \in DOMAIN busy : busy[v] = -2}) < MaxExits
  /\ \E uncaught \in {b \in BOOLEAN : b => busy[w] >= 0} :
       mailbox' = [mailbox EXCEPT ![w] =
         @ \o (IF uncaught THEN <<[type |-> "crash", index |-> busy[w]]>> ELSE <<>>)
           \o <<[type |-> "exit", index |-> busy[w]]>>]
  /\ busy' = [busy EXCEPT ![w] = -2]
  /\ UNCHANGED <<callRestVars, nextTask, ready, results, completed, yielded,
                 failed, arrivals, cpc, failedWith, errorLog, delivered, thrown>>

\* The main thread takes the oldest event of worker w and runs its handler.
MainHandle(w) ==
  /\ MainIdle
  /\ CallOpen
  /\ w \in DOMAIN mailbox
  /\ mailbox[w] # <<>>
  /\ LET s == Handle(CallState, w, Head(mailbox[w]))
     IN  /\ busy' = s.busy /\ nextTask' = s.nextTask
         /\ ready' = s.ready /\ results' = s.results
         /\ completed' = s.completed
         /\ failed' = s.failed /\ failedWith' = s.failedWith
         /\ errorLog' = s.errorLog /\ arrivals' = s.arrivals
         /\ cpc' = s.cpc
  /\ mailbox' = [mailbox EXCEPT ![w] = Tail(@)]
  /\ UNCHANGED <<callRestVars, yielded, delivered, thrown>>

\* Lines 308-312 with the loop body of the consumer: the oldest result is
\* yielded and the consumer asks for the next one.
StreamTake ==
  /\ cpc = "loop"
  /\ ready # <<>>
  /\ delivered' = Append(delivered, Head(ready).index)
  /\ ready' = Tail(ready)
  /\ yielded' = yielded + 1
  /\ UNCHANGED <<callRestVars, busy, nextTask, results, completed, failed,
                 arrivals, cpc, mailbox, failedWith, errorLog, thrown>>

\* Lines 313-315 and 321-323: throw failed, and `finally` awaits terminate().
StreamThrowFailed ==
  /\ cpc = "loop"
  /\ ready = <<>>
  /\ failed
  /\ thrown' = failedWith
  /\ cpc' = "closing"
  /\ UNCHANGED <<callRestVars, busy, nextTask, ready, results, completed, yielded,
                 failed, arrivals, mailbox, failedWith, errorLog, delivered>>

\* Lines 316-318 and 321-323: every result is yielded; `finally` awaits
\* terminate().
StreamBreak ==
  /\ cpc = "loop"
  /\ ready = <<>>
  /\ ~failed
  /\ yielded >= Len(tasks)
  /\ cpc' = "closing"
  /\ UNCHANGED <<callRestVars, busy, nextTask, ready, results, completed, yielded,
                 failed, arrivals, mailbox, failedWith, errorLog, delivered, thrown>>

\* Line 319: await waitForEvent().
StreamWait ==
  /\ cpc = "loop"
  /\ ready = <<>>
  /\ ~failed
  /\ yielded < Len(tasks)
  /\ cpc' = "waiting"
  /\ UNCHANGED <<callRestVars, busy, nextTask, ready, results, completed, yielded,
                 failed, arrivals, mailbox, failedWith, errorLog, delivered, thrown>>

\* terminate() of every worker has resolved: the generator ends or rethrows
\* (line 323), the batch promise is resolved with the slots or rejected with
\* the error of fail (lines 158, 167-169).
CallClosed ==
  /\ cpc = "closing"
  /\ busy' = [w \in DOMAIN busy |-> -2]
  /\ mailbox' = [w \in DOMAIN mailbox |-> <<>>]
  /\ IF cmode = "stream"
       THEN /\ cpc' = IF thrown = NoError THEN "returned" ELSE "threw"
            /\ UNCHANGED <<thrown, delivered>>
       ELSE IF failed
         THEN /\ cpc' = "threw"
              /\ thrown' = failedWith
              /\ UNCHANGED delivered
         ELSE /\ cpc' = "returned"
              /\ delivered' = [i \in DOMAIN results |-> results[i].index]
              /\ UNCHANGED thrown
  /\ UNCHANGED <<callRestVars, nextTask, ready, results, completed, yielded,
                 failed, arrivals, failedWith, errorLog>>

CompressNext ==
  \/ \E w \in DOMAIN busy : WorkerPost(w)
  \/ \E w \in DOMAIN busy : WorkerExit(w)
  \/ \E w \in DOMAIN busy : MainHandle(w)
  \/ StreamTake
  \/ StreamThrowFailed
  \/ StreamBreak
  \/ StreamWait
  \/ CallClosed

CompressSpec == CompressInit /\ [][CompressNext]_vars

\* The same with every worker answering its task unless it dies, and the main
\* thread running what is runnable.
CompressFairSpec ==
  /\ CompressSpec
  /\ \A w \in 1..3 : WF_vars(WorkerPost(w)) /\ WF_vars(MainHandle(w))
  /\ WF_vars(StreamTake) /\ WF_vars(StreamThrowFailed)
  /\ WF_vars(StreamBreak) /\ WF_vars(StreamWait)
  /\ WF_vars(CallClosed)

\* ------------------------------------------------------------ readers on any content
\* stringBytes and readRawMetaBytes read channels that anyone may have
\* written: one call of either on string tables and FAT chains of every
\* content, well formed or not.
MaxRecords == 3
MaxBlocks == 3

\* A record payload without a NUL, and one that ends its string.
FullChunk == [i \in 1..STRING_PAYLOAD_SIZE |-> 97]
LastChunk == ZeroPadded(<<98>>)

\* String tables of up to MaxRecords records whose next pointers are any
\* record index, the end mark 0, or the index just past the largest table.
AnyStringTables ==
  UNION { [1..n -> [header : {OrTopBit(x) : x \in 0..MaxRecords},
                    payload : {FullChunk, LastChunk}]] : n \in 1..MaxRecords }

StartIndices == -1..MaxRecords

\* The FAT has entries for blocks 0..MaxBlocks - 1 and the data file holds one
\* block more; an entry is a block with an entry, the block without one, the
\* end mark, or a block past the data file.
AnyFats ==
  { [b \in 1..MaxBlocks |-> IF b = 1 THEN 0 ELSE f[b]] :
      f \in [1..MaxBlocks -> (1..MaxBlocks) \cup {FAT_END, MaxBlocks + 2}] }

AnyMetas ==
  { packMetaRecord(0, size, startBlock, 0) :
      size \in {k * DAT_BLOCK_SIZE : k \in 0..MaxBlocks}
                 \cup {k * DAT_BLOCK_SIZE + 1 : k \in 0..(MaxBlocks - 1)},
      startBlock \in (1..MaxBlocks) \cup {FAT_END} }

DataBlocks == [b \in 1..(MaxBlocks + 1) |-> [f |-> 104, c |-> b - 1]]

\* zlib.inflateSync on the payloads of the model: <<120, k>> is the deflate
\* stream of k bytes, everything else is no deflate stream (inflate throws).
inflateSync(payload) ==
  IF Len(payload) = 2 /\ payload[1] = 120
    THEN [ok |-> TRUE, bytes |-> [i \in 1..payload[2] |-> 55]]
    ELSE [ok |-> FALSE, bytes |-> <<>>]

\* decodeFilePayload (lines 415-438) on a buffer of raw.length bytes whose
\* header, if it is all there, holds typ and declaredSize and is followed by
\* raw.payload.
decodeWrapper(raw) ==
  IF raw.length < FILE_WRAPPER_HEADER_SIZE THEN [ok |-> FALSE, bytes |-> <<>>]
  ELSE IF raw.typ = 1
    THEN LET out == inflateSync(raw.payload)
         IN  IF ~out.ok THEN [ok |-> FALSE, bytes |-> <<>>]
             ELSE IF raw.declaredSize # 0 /\ Len(out.bytes) # raw.declaredSize
               THEN [ok |-> FALSE, bytes |-> <<>>]
             ELSE [ok |-> TRUE, bytes |-> out.bytes]
  ELSE IF raw.declaredSize # 0 /\ Len(raw.payload) # raw.declaredSize
    THEN [ok |-> FALSE, bytes |-> <<>>]
  ELSE [ok |-> TRUE, bytes |-> raw.payload]

\* Buffers shorter than the header, and headers of type 0, 1 and 2 with a
\* declared size of 0 to MaxDeclared in front of no byte, of plain bytes and
\* of deflate streams of 0 to MaxDeclared bytes.
MaxDeclared == 2

AnyPayloads ==
  {<<>>, <<55>>, <<55, 56>>} \cup {<<120, k>> : k \in 0..MaxDeclared}

AnyWrappers ==
  { [length |-> n, typ |-> 0, declaredSize |-> 0, payload |-> <<>>] :
      n \in {0, FILE_WRAPPER_HEADER_SIZE - 1} }
    \cup { [length |-> FILE_WRAPPER_HEADER_SIZE + Len(p), typ |-> t,
            declaredSize |-> d, payload |-> p] :
            t \in 0..2, d \in 0..MaxDeclared, p \in AnyPayloads }

\* Index files of any length whose header names one or four channels, with
\* pages-per-stripe words of 0, 1, 2 or 4 and sizes of a few bytes or of more
\* than a 4096-byte page.
AnyHeaders ==
  { h \in [fileSize : {100, 512, 2048, 2560, 4096, 8192, 20480, 24576, 32768},
           pagesPerStripe : {<<1>>, <<1, 1, 1, 1>>, <<1, 2, 1, 1>>, <<1, 1, 1, 4>>,
                             <<0, 0, 0, 0>>},
           sizes : {<<16>>, <<4100>>} \cup { <<a, 16, 16, b>> : a, b \in {16, 4100} }] :
      Len(h.sizes) = Len(h.pagesPerStripe) }

ReaderInit ==
  /\ rdpc = "args"
  /\ \/ /\ rdCall \in [op : {"stringBytes"}, stringIndex : StartIndices, meta : {NoMeta},
                        raw : {NoRaw}, file : {NoHeader}]
        /\ idxStrings \in AnyStringTables
        /\ idxFat = <<>> /\ idxFatSize = 0
        /\ datSize = 0 /\ dat = <<>>
     \/ /\ rdCall \in [op : {"decodeFilePayload"}, stringIndex : {0}, meta : {NoMeta},
                        raw : AnyWrappers, file : {NoHeader}]
        /\ idxStrings = <<>>
        /\ idxFat = <<>> /\ idxFatSize = 0
        /\ datSize = 0 /\ dat = <<>>
     \/ /\ rdCall \in [op : {"readRawMetaBytes"}, stringIndex : {0}, meta : AnyMetas,
                        raw : {NoRaw}, file : {NoHeader}]
        /\ idxStrings = <<>>
        /\ idxFat \in AnyFats /\ idxFatSize = MaxBlocks * 4
        /\ datSize \in { (MaxBlocks + 1) * DAT_BLOCK_SIZE, (MaxBlocks + 1) * DAT_BLOCK_SIZE - 100 }
        /\ dat = DataBlocks
     \/ /\ rdCall \in [op : {"PriusIdx"}, stringIndex : {0}, meta : {NoMeta},
                        raw : {NoRaw}, file : AnyHeaders]
        /\ idxStrings = <<>>
        /\ idxFat = <<>> /\ idxFatSize = 0
        /\ datSize = 0 /\ dat = <<>>
  /\ rdOut = NoRead /\ datFd = "null"
  /\ idxGeom = [pageSize |-> 0, stripes |-> 0, pagesPerStripe |-> <<0, 0, 0, 0>>]
  /\ idxDt = <<>> /\ idxMeta = <<>>
  /\ runs = 0
  /\ PatchIdle /\ RepackIdle /\ PoolIdle /\ IdxBytesIdle

readRestVars ==
  <<runs, idxStaticVars, fileVars, arcId, fileMap, dryRun, pc, phase1Vars,
    preflightVars, phase2Vars, flagVars, writeVars, cursor, outcome, ioLog,
    repackVars, poolVars, callVars, idxByteVars>>

\* stringBytes(stringIndex) on a fresh archive object (nothing is cached).
ReadString ==
  /\ rdpc = "args" /\ rdCall.op = "stringBytes"
  /\ LET r == stringBytes(idxStrings, rdCall.stringIndex)
     IN  rdOut' = [ok |-> r.ok,
                   err |-> stringBytesError(idxStrings, rdCall.stringIndex),
                   bytes |-> IF r.ok THEN r.bytes ELSE <<>>,
                   data |-> <<>>]
  /\ rdpc' = "done"
  /\ UNCHANGED <<rdCall, datFd, readRestVars>>

\* readRawMetaBytes(meta): ensureDatFd (line 381) opens the data file after
\* the checks of the size and of the start block.
ReadPayload ==
  /\ rdpc = "args" /\ rdCall.op = "readRawMetaBytes"
  /\ LET r == readRawMetaBytes(OpenArchive, dat, datSize, rdCall.meta, FALSE)
     IN  rdOut' = [ok |-> r.ok,
                   err |-> IF r.ok THEN "none" ELSE "thrown",
                   bytes |-> <<>>,
                   data |-> IF r.ok THEN r.data ELSE <<>>]
  /\ datFd' = IF rdCall.meta.size = 0 \/ rdCall.meta.startBlock = FAT_END
                THEN datFd ELSE "open"
  /\ rdpc' = "done"
  /\ UNCHANGED <<rdCall, readRestVars>>

\* decodeFilePayload(raw).
ReadDecode ==
  /\ rdpc = "args" /\ rdCall.op = "decodeFilePayload"
  /\ LET r == decodeWrapper(rdCall.raw)
     IN  rdOut' = [ok |-> r.ok,
                   err |-> IF r.ok THEN "none" ELSE "thrown",
                   bytes |-> r.bytes,
                   data |-> <<>>]
  /\ rdpc' = "done"
  /\ UNCHANGED <<rdCall, datFd, readRestVars>>

\* new PriusIdx(idxPath) on a file with that length and header: the page size
\* is inferred and the stripe count follows from it (lines 90-99).
ReadHeader ==
  /\ rdpc = "args" /\ rdCall.op = "PriusIdx"
  /\ LET idx == PriusIdx(rdCall.file.fileSize, rdCall.file.pagesPerStripe,
                         rdCall.file.sizes)
     IN  /\ idxGeom' = idx
         /\ rdOut' = [ok |-> idx.pageSize # 0,
                      err |-> IF idx.pageSize # 0 THEN "none" ELSE "thrown",
                      bytes |-> <<>>, data |-> <<>>]
  /\ rdpc' = "done"
  /\ UNCHANGED <<rdCall, datFd, runs, idxDt, idxStrings, fileVars, arcId, fileMap,
                 dryRun, pc, phase1Vars, preflightVars, phase2Vars, flagVars,
                 writeVars, cursor, outcome, ioLog, repackVars, poolVars, callVars,
                 idxByteVars>>

ReaderNext == ReadString \/ ReadPayload \/ ReadDecode \/ ReadHeader

ReaderSpec == ReaderInit /\ [][ReaderNext]_vars

\* ------------------------------------------------------------ properties
Finished == pc = "done"

Failed == pc = "done" /\ outcome.kind = "throw"

\* The slots the plan targets.
TargetSlots == {patches[i].metaIdx : i \in DOMAIN patches}

\* The FAT channel as a reader sees it: the words below the size header word.
FatChannel(fat, fatSize) == SubSeq(fat, 1, fatSize \div 4)

\* No system call has changed either file, and both hold their pre-patch bytes.
Untouched ==
  /\ ioLog = <<>>
  /\ idxMeta = PrePatch.meta /\ idxFatSize = PrePatch.fatSize /\ idxFat = PrePatch.fat
  /\ datSize = PrePatch.datSize /\ dat = PrePatch.dat

\* The verify phase is the only thing that can fail once idxUpdated is set.
VerifyFailed == idxUpdated /\ pc \in {"catch", "rethrow", "done"} /\ outcome.kind # "return"

\* C1: when the verify phase fails, patchFiles ends with the data file at its
\* pre-patch length (and bytes), every targeted meta slot holding its pre-patch
\* record and the FAT size word at its pre-patch value, so a reader sees the
\* pre-patch meta and FAT channels.
C1_RollbackSoundness ==
  (Finished /\ VerifyFailed) =>
     /\ datSize = PrePatch.datSize
     /\ dat = PrePatch.dat
     /\ \A m \in TargetSlots : idxMeta[m + 1] = PrePatch.meta[m + 1]
     /\ idxFatSize = PrePatch.fatSize
     /\ idxMeta = PrePatch.meta
     /\ FatChannel(idxFat, idxFatSize) = FatChannel(PrePatch.fat, PrePatch.fatSize)

\* A run whose verify phase failed after two payloads were committed.
C1_Witness ==
  /\ Finished /\ VerifyFailed
  /\ Len(prepared) = 2
  /\ idxFat # PrePatch.fat

\* C2: an error in the commit phase after bytes reached the data file or the
\* index file is followed by the rollback: data file back at its pre-patch
\* length, touched meta slots restored, FAT size word back at original_fat_size.
C2_RollbackAfterAnyWrite ==
  (Failed /\ ioLog # <<>>) =>
     /\ rolledBack
     /\ datSize = PrePatch.datSize
     /\ \A m \in TargetSlots : idxMeta[m + 1] = PrePatch.meta[m + 1]
     /\ idxFatSize = originalFatSize

\* C3: when patchFiles has rolled back, what it reports to its caller carries
\* rolledBack = true.
C3_RollbackReported ==
  (Finished /\ rolledBack) =>
     /\ outcome.kind = "return"
     /\ "rolledBack" \in outcome.has
     /\ outcome.rolledBack

\* The state of the patch state machine, read off the position and the flags
\* of patchFiles.
PatchState ==
  IF outcome.kind = "throw" THEN "Failed"
  ELSE IF outcome.kind = "return"
    THEN (IF "rolledBack" \in outcome.has THEN "Verified" ELSE "Returned")
  ELSE IF rolledBack THEN "RolledBack"
  ELSE IF idxUpdated THEN "IdxUpdated"
  ELSE IF datAppended THEN "DatAppended"
  ELSE IF pc \in {"commit", "enqueue", "datFsync", "catch", "rethrow"} THEN "Prepared"
  ELSE IF pc \in {"preflight", "prepare"} THEN "Resolved"
  ELSE "Start"

PatchTransitions ==
  { <<"Start", "Resolved">>, <<"Start", "Returned">>, <<"Start", "Failed">>,
    <<"Resolved", "Prepared">>, <<"Resolved", "Failed">>,
    <<"Prepared", "DatAppended">>, <<"Prepared", "Failed">>,
    <<"DatAppended", "IdxUpdated">>, <<"DatAppended", "RolledBack">>,
    <<"IdxUpdated", "Verified">>, <<"IdxUpdated", "RolledBack">>,
    <<"Verified", "RolledBack">>,
    <<"RolledBack", "Failed">> }

\* C4: a run with a resolved target that is no dry run moves through
\* Resolved, Prepared, DatAppended, IdxUpdated, Verified in that order, one
\* state at a time and never backwards; RolledBack is entered only from
\* DatAppended, IdxUpdated or Verified, its only successor is Failed, and no
\* run ends in it.
C4_StateMachine ==
  /\ [][PatchState' = PatchState \/ <<PatchState, PatchState'>> \in PatchTransitions]_vars
  /\ [](PatchState = "RolledBack" => pc = "rethrow")
  /\ []((Len(patches) > 0 /\ ~dryRun /\ pc \notin {"resolve", "done"}) =>
           PatchState \notin {"Start", "Returned"})

\* A run that failed after rolling back from DatAppended.
C4_Witness ==
  /\ PatchState = "Failed"
  /\ rolledBack /\ datAppended /\ ~idxUpdated

\* The preflight has run: it records the (non-zero) length of the data file.
PreflightRan == originalDatSize # 0

\* The pre-patch archive fails one of the three consistency conditions.
ArchiveInconsistent ==
  \/ PrePatch.datSize % 512 # 0
  \/ PrePatch.datSize \div 512 # PrePatch.fatSize \div 4
  \/ PrePatch.fatSize # (PrePatch.fatSize \div 4) * 4

\* C5: when the preflight finds the data file unaligned, its block count
\* different from the FAT entry count, or the FAT size word different from
\* four times the entry count, patchFiles fails and has written nothing.
C5_PreflightAbortsUntouched ==
  (PreflightRan /\ ArchiveInconsistent) => (Failed /\ Untouched /\ ~rolledBack)

\* A failed preflight on the archive whose FAT size word is no multiple of 4.
C5_Witness ==
  /\ PreflightRan /\ Failed
  /\ PrePatch.datSize % 512 = 0
  /\ PrePatch.datSize \div 512 = PrePatch.fatSize \div 4
  /\ PrePatch.fatSize % 4 # 0

\* The prepare phase has run on the plan in `patches`.
PrepareRan == PreflightRan /\ ~ArchiveInconsistent /\ pc # "prepare"

PlanUnreadable == \E i \in DOMAIN patches : ~LocalFiles[patches[i].localPath].readable

RECURSIVE PlanBlocksUpTo(_)
PlanBlocksUpTo(n) ==
  IF n = 0 THEN 0
  ELSE PlanBlocksUpTo(n - 1) + (LocalFiles[patches[n].localPath].wrappedLen + 511) \div 512

PlanBlocks == PlanBlocksUpTo(Len(patches))

PlanFatOverflow ==
  (PrePatch.datSize \div 512 + PlanBlocks) * 4 >
     PrePatch.layout.stripes * PrePatch.layout.pagesPerStripe[4] * PrePatch.layout.pageSize

PlanMetaOverflow ==
  \E i \in DOMAIN patches :
     patches[i].metaIdx * 16 + 16 >
        PrePatch.layout.stripes * PrePatch.layout.pagesPerStripe[3] * PrePatch.layout.pageSize

\* C6: when the prepare phase fails (a payload cannot be compressed, the grown
\* FAT exceeds the channel capacity, or a target slot lies outside the meta
\* channel) patchFiles fails with both files untouched and without rollback.
C6_PrepareAbortsUntouched ==
  (PrepareRan /\ (PlanUnreadable \/ PlanFatOverflow \/ PlanMetaOverflow)) =>
     (Failed /\ Untouched /\ ~rolledBack /\ ~datAppended /\ ~idxUpdated)

\* A failed prepare whose payloads all compress but do not fit the FAT channel.
C6_Witness ==
  /\ PrepareRan /\ Failed
  /\ ~PlanUnreadable /\ PlanFatOverflow

\* The meta index a query resolves to in the pre-patch directory: the exact
\* slash-normalised key first, then its lowercase form; -1 when neither is there.
NameTarget(k) ==
  IF \E i \in DOMAIN PrePatch.names : PrePatch.names[i].name = k
    THEN PrePatch.names[CHOOSE i \in DOMAIN PrePatch.names : PrePatch.names[i].name = k].metaIndex
    ELSE -1

QueryTarget(q) ==
  LET n == [i \in DOMAIN q |-> IF q[i] = 47 THEN 92 ELSE q[i]]
      l == [i \in DOMAIN n |-> IF n[i] \in 65..90 THEN n[i] + 32 ELSE n[i]]
  IN  IF Len(q) = 0 THEN -1
      ELSE IF NameTarget(n) >= 0 THEN NameTarget(n)
      ELSE NameTarget(l)

NoneResolves == \A i \in DOMAIN fileMap : QueryTarget(fileMap[i].requestedPath) < 0

\* C7: with an empty mapping, or one none of whose keys resolves, patchFiles
\* ends in resolution, returns patched = 0 and leaves both files untouched.
C7_NothingToPatch ==
  NoneResolves =>
     /\ Untouched
     /\ pc \in {"resolve", "done"}
     /\ Finished => (outcome.kind = "return" /\ outcome.patched = 0
                     /\ "wouldPatch" \notin outcome.has)

\* A finished run, no dry run, on a non-empty mapping whose key is not in the archive.
C7_Witness ==
  /\ Finished /\ NoneResolves
  /\ Len(fileMap) > 0 /\ ~dryRun
  /\ notFound = Len(fileMap)

\* The slots the mapping resolves to, and whether one lies past the meta channel.
ResolvedSlots == {QueryTarget(fileMap[i].requestedPath) : i \in DOMAIN fileMap} \ {-1}

DanglingTarget == \E m \in ResolvedSlots : m >= Len(PrePatch.meta)

\* The count a finished dry run reports: wouldPatch, or 0 when the field is absent.
ReportedCount == IF "wouldPatch" \in outcome.has THEN outcome.wouldPatch ELSE 0

\* C8 as claimed: every dry run writes nothing and returns, after resolution,
\* the number of entries that would be patched.
C8_DryRunAlwaysReturns ==
  (dryRun /\ Finished) =>
     /\ Untouched
     /\ outcome.kind = "return"
     /\ ReportedCount = Cardinality(ResolvedSlots)

\* C8 as amended: a dry run never writes and ends in resolution; it throws when
\* a resolved slot lies past the meta channel or a planned local file cannot be
\* stat'ed, and otherwise returns patched = 0 with wouldPatch = the number of
\* distinct resolved slots (no wouldPatch field when there is none).
C8_DryRun ==
  dryRun =>
     /\ Untouched
     /\ pc \in {"resolve", "done"}
     /\ Finished =>
          IF DanglingTarget \/ PlanUnreadable
            THEN outcome.kind = "throw"
            ELSE /\ outcome.kind = "return"
                 /\ outcome.patched = 0
                 /\ ReportedCount = Cardinality(ResolvedSlots)
                 /\ ("wouldPatch" \in outcome.has) <=> (ResolvedSlots # {})

\* A finished dry run that reports two entries from a mapping of two.
C8_Witness ==
  /\ dryRun /\ Finished
  /\ outcome.kind = "return" /\ outcome.wouldPatch = 2

\* The system calls on the index file, in the order they were made.
IdxEvents == SelectSeq(ioLog, LAMBDA e : e[1] = "idx")

\* Position of the first index-file call in ioLog (0 when there is none).
FirstIdxEvent ==
  IF \E j \in DOMAIN ioLog : ioLog[j][1] = "idx"
    THEN CHOOSE j \in DOMAIN ioLog :
           ioLog[j][1] = "idx" /\ \A k \in 1..(j - 1) : ioLog[k][1] # "idx"
    ELSE 0

\* The index update the plan calls for: the new FAT entries at the pre-patch
\* FAT size, the size word, the target slots in plan order, the fsync.
PlanIdxEvents ==
  (IF PlanBlocks > 0 THEN << <<"idx", "fat", PrePatch.fatSize>> >> ELSE <<>>)
  \o << <<"idx", "hdr", (PrePatch.datSize \div 512 + PlanBlocks) * 4>> >>
  \o [i \in DOMAIN patches |-> <<"idx", "meta", patches[i].metaIdx>>]
  \o << <<"idx", "fsync", 0>> >>

IsPrefix(a, b) == Len(a) <= Len(b) /\ a = SubSeq(b, 1, Len(a))

\* The blocks the plan appends: every payload's wrapped bytes, in plan order.
RECURSIVE PlanAppendedUpTo(_)
PlanAppendedUpTo(n) ==
  IF n = 0 THEN <<>>
  ELSE PlanAppendedUpTo(n - 1)
       \o [c \in 1..((LocalFiles[patches[n].localPath].wrappedLen + 511) \div 512) |->
             [f |-> patches[n].localPath, c |-> c - 1]]

DatComplete ==
  /\ datSize = PrePatch.datSize + PlanBlocks * 512
  /\ dat = PrePatch.dat \o PlanAppendedUpTo(Len(patches))

\* C9: in the commit phase the index file is written only after every new
\* payload block is in the data file and the data file has been fsynced (the
\* call just before the first index call is that fsync); the index calls are,
\* in order, the new FAT entries at original_fat_size, the FAT size word, the
\* target meta slots, and last the fsync.
C9_CommitOrder ==
  ~rolledBack =>
     /\ IsPrefix(IdxEvents, PlanIdxEvents)
     /\ FirstIdxEvent > 0 =>
          /\ DatComplete
          /\ datAppended
          /\ FirstIdxEvent > 1
          /\ ioLog[FirstIdxEvent - 1] = <<"dat", "fsync", 0>>
          /\ \A k \in 1..(FirstIdxEvent - 1) : ioLog[k][1] = "dat"
          /\ \A k \in FirstIdxEvent..Len(ioLog) : ioLog[k][1] = "idx"
     /\ idxUpdated => IdxEvents = PlanIdxEvents

\* The whole index update of a two-payload plan has been made.
C9_Witness ==
  /\ pc = "verify" /\ idxUpdated
  /\ Len(patches) = 2
  /\ Len(IdxEvents) = 5

\* C10: after a successful patch every targeted meta record keeps its pre-patch
\* extra, has its pre-patch flags with bit 0 set, has the length of the new
\* wrapped payload as size, and starts at or after the pre-patch block count,
\* its blocks lying inside the grown data file.
C10_NewMetaRecords ==
  PatchState = "Verified" =>
     \A i \in DOMAIN patches :
        LET new == idxMeta[patches[i].metaIdx + 1]
            old == PrePatch.meta[patches[i].metaIdx + 1]
        IN  /\ new.extra = old.extra
            /\ new.flags % 2 = 1
            /\ new.flags = (IF old.flags % 2 = 1 THEN old.flags ELSE old.flags + 1)
            /\ new.size = LocalFiles[patches[i].localPath].wrappedLen
            /\ new.startBlock >= PrePatch.datSize \div 512
            /\ (new.startBlock + (new.size + 511) \div 512) * 512 <= datSize

\* A successful patch of two entries, one with even flags and a non-zero extra.
C10_Witness ==
  /\ PatchState = "Verified"
  /\ Len(patches) = 2
  /\ \E i \in DOMAIN patches :
        /\ PrePatch.meta[patches[i].metaIdx + 1].flags % 2 = 0
        /\ PrePatch.meta[patches[i].metaIdx + 1].extra # 0

\* ------------------------------------------------------------ archives at rest
\* repack has returned, and no patch run is under way: none has started, or
\* the last one has returned.
RepackedAtRest ==
  /\ rpc = "rdone" /\ repOutcome.kind = "return"
  /\ pc = "idle" \/ (pc = "done" /\ outcome.kind = "return")

\* The number of blocks on the chain from `block` to the end marker; -1 for a
\* chain that leaves the table or does not end within `fuel` blocks.
RECURSIVE ChainBlocks(_, _, _)
ChainBlocks(fat, block, fuel) ==
  IF fuel = 0 \/ block < 0 \/ block + 1 > Len(fat) THEN -1
  ELSE IF fat[block + 1] = FAT_END THEN 1
  ELSE LET rest == ChainBlocks(fat, fat[block + 1], fuel - 1)
       IN  IF rest < 0 THEN -1 ELSE rest + 1

\* C11: in the archive repack wrote, and in the archive after patch runs that
\* returned, every meta record of non-zero size that a trie node refers to
\* starts a FAT chain of exactly ceil(size / 512) blocks whose last entry is
\* 0xFFFFFFFF.
C11_ChainLengths ==
  RepackedAtRest =>
     \A n \in 2..Len(idxDt) :
        LET rec == idxMeta[idxDt[n].metaIndex + 1]
        IN  rec.size > 0 =>
              ChainBlocks(FatChannel(idxFat, idxFatSize), rec.startBlock, Len(idxFat))
                = (rec.size + 511) \div 512

\* Two files were packed and two patch runs have each appended blocks; a
\* record of the archive has a chain of two blocks.
C11_Witness ==
  /\ RepackedAtRest
  /\ runs = 2 /\ pc = "done"
  /\ Len(idxDt) = 3
  /\ datSize > repOutcome.datSize + 4 * DAT_BLOCK_SIZE
  /\ \E n \in 2..Len(idxDt) : idxMeta[idxDt[n].metaIndex + 1].size > DAT_BLOCK_SIZE

\* repack has returned and every patch run since has ended in success or in a
\* rollback.
RepackedSettled ==
  /\ rpc = "rdone" /\ repOutcome.kind = "return"
  /\ pc = "idle" \/ (pc = "done" /\ (outcome.kind = "return" \/ rolledBack))

\* C12: the archive repack wrote, and the archive any number of patch runs
\* ending in success or in a rollback leave behind, has a data file of whole
\* blocks, as many FAT entries as the data file has blocks, and a FAT size
\* word of four bytes per entry; the preflight of the next patch passes.
C12_FilesAgree ==
  RepackedSettled =>
     /\ datSize % 512 = 0
     /\ Len(dat) = datSize \div 512
     /\ idxFatSize = (datSize \div 512) * 4
     /\ PreflightError(OpenArchive, datSize) = "none"

\* The second run has passed its preflight on the archive a rolled back first
\* run left behind: the FAT words of the first run lie behind the table.
C12_RolledBackThenPatched ==
  /\ rpc = "rdone" /\ runs = 2
  /\ pc = "prepare"
  /\ datSize = repOutcome.datSize
  /\ idxFat[idxFatSize \div 4 + 1] # 0

\* The first block the plan gives to its i-th payload.
PlanStart(i) == PrePatch.datSize \div 512 + PlanBlocksUpTo(i - 1)

\* C13: whatever order the workers of the batch answer in, the i-th prepared
\* payload is the wrapped form of the i-th planned file, and its blocks start
\* where those of the payloads before it end, the first at the pre-patch
\* block count; after a successful patch the data file, the FAT and the
\* targeted meta records are what the plan, in its order, determines.
C13_PlanOrderLayout ==
  /\ prepared # <<>> =>
       /\ Len(prepared) = Len(patches)
       /\ \A i \in DOMAIN prepared :
            /\ prepared[i].metaIdx = patches[i].metaIdx
            /\ prepared[i].wrapped.f = patches[i].localPath
            /\ prepared[i].wrapped.len = LocalFiles[patches[i].localPath].wrappedLen
            /\ prepared[i].startBlock = PlanStart(i)
            /\ prepared[i].blocksNeeded = PlanBlocksUpTo(i) - PlanBlocksUpTo(i - 1)
  /\ PatchState = "Verified" =>
       /\ DatComplete
       /\ idxFatSize = (PrePatch.datSize \div 512 + PlanBlocks) * 4
       /\ \A i \in DOMAIN patches :
            LET n == PlanBlocksUpTo(i) - PlanBlocksUpTo(i - 1)
                rec == idxMeta[patches[i].metaIdx + 1]
            IN  /\ rec.size = LocalFiles[patches[i].localPath].wrappedLen
                /\ rec.startBlock = PlanStart(i)
                /\ \A b \in 0..(n - 1) :
                     idxFat[PlanStart(i) + b + 1] =
                        (IF b = n - 1 THEN FAT_END ELSE PlanStart(i) + b + 1)

\* A patch of two different files has succeeded, the result of the second
\* file having come in before that of the first.
C13_Witness ==
  /\ PatchState = "Verified"
  /\ arrivals = <<1, 0>>
  /\ patches[1].localPath # patches[2].localPath

\* ------------------------------------------------------------ repack, as asked for
\* repack has returned and no patch has been started on its archive.
RepackDone == rpc = "rdone" /\ repOutcome.kind = "return" /\ runs = 0

\* The archive key of a candidate: slashes to backslashes, then lowercase.
KeyOf(p) ==
  [i \in DOMAIN p |->
     IF p[i] = 47 THEN 92
     ELSE IF p[i] >= 65 /\ p[i] <= 90 THEN p[i] + 32
     ELSE p[i]]

\* The candidate has a regular local file.
HasFile(i) == LocalPathOf(candidates[i]) # 0

\* Candidate i is the first candidate of its key that has a file.
Kept(i) ==
  /\ HasFile(i)
  /\ \A j \in 1..(i - 1) : HasFile(j) => KeyOf(candidates[j]) # KeyOf(candidates[i])

\* The meta index of a kept candidate: the number of candidates kept before it.
KeptIndex(i) == Cardinality({j \in 1..(i - 1) : Kept(j)})

\* C14: in the archive repack wrote, for every order the compression results
\* come in and with the size schedule on or off, the lookup of every accepted
\* key gives the meta index the key got in phase 1, and the bytes on the FAT
\* chain of that record are the wrapped payload of the key's own file, which
\* decode to that file.
C14_OwnPayload ==
  RepackDone =>
     \A i \in DOMAIN candidates :
        Kept(i) =>
          LET file == LocalPathOf(candidates[i])
              m == findMeta(OpenArchive, KeyOf(candidates[i]))
              read == readRawMetaBytes(OpenArchive, dat, datSize, idxMeta[m + 1], FALSE)
          IN  /\ m = KeptIndex(i)
              /\ idxMeta[m + 1].size = LocalFiles[file].wrappedLen
              /\ read.ok
              /\ read.data = WrappedData([f |-> file, len |-> LocalFiles[file].wrappedLen])
              /\ decodeFilePayload(read.data) = file

\* Two files were packed by two workers: the schedule put the second file
\* first, and the result of the first file came in first.
C14_Witness ==
  /\ RepackDone
  /\ Len(validPaths) = 2
  /\ scheduledToOriginal = <<1, 0>>
  /\ arrivals = <<1, 0>>

\* What repack writes when it compresses inline: the payloads follow block 0
\* in the order the files were handed to the compressor.
RECURSIVE InlineBlocksUpTo(_)
InlineBlocksUpTo(n) ==
  IF n = 0 THEN 0
  ELSE InlineBlocksUpTo(n - 1) + (LocalFiles[scheduledPaths[n]].wrappedLen + 511) \div 512

RECURSIVE InlinePayloadsUpTo(_)
InlinePayloadsUpTo(n) ==
  IF n = 0 THEN <<>>
  ELSE InlinePayloadsUpTo(n - 1)
       \o [c \in 1..((LocalFiles[scheduledPaths[n]].wrappedLen + 511) \div 512) |->
             [f |-> scheduledPaths[n], c |-> c - 1]]

\* The meta slot of the n-th file handed to the compressor.
SlotOf(n) == IF scheduledToOriginal # <<>> THEN scheduledToOriginal[n] ELSE n - 1

\* C15: a repack that compresses with a pool of workers writes the data file
\* and the index file an inline repack of the same input writes, whatever
\* order the workers complete in.
C15_PoolWritesInlineBytes ==
  RepackDone =>
     /\ dat = <<Reserved>> \o InlinePayloadsUpTo(Len(scheduledPaths))
     /\ \A n \in DOMAIN scheduledPaths :
          idxMeta[SlotOf(n) + 1] =
            packMetaRecord(1, LocalFiles[scheduledPaths[n]].wrappedLen,
                           1 + InlineBlocksUpTo(n - 1), 0)

\* The same statement for the runs without a pool.
C15_InlineOnly == workerCount <= 1 => C15_PoolWritesInlineBytes

\* ------------------------------------------------------------ builders, as asked for
\* a is a proper prefix of b.
ProperPrefix(a, b) == Len(a) < Len(b) /\ a = SubSeq(b, 1, Len(a))

\* The key without its trailing zero bytes.
RECURSIVE Strip(_)
Strip(k) ==
  IF k = <<>> THEN <<>>
  ELSE IF k[Len(k)] = 0 THEN Strip(SubSeq(k, 1, Len(k) - 1))
  ELSE k

\* The lookup walk for each key inserted so far ends at the node made for that
\* key, which carries the key's string and meta index.
EveryKeyFound ==
  \A i \in 1..(Len(trie.nodes) - 1) :
     /\ WalkToLeaf(trie.nodes, validPaths[i], 0, trie.nodes[1].rightRaw) = i
     /\ trie.keyData[i + 1] = validPaths[i]
     /\ trie.nodes[i + 1].nameRaw = OrTopBit(stringIndices[i])
     /\ trie.nodes[i + 1].metaIndex = i - 1

\* C16 as claimed: after every iteration of the builder's loop over distinct
\* non-empty keys, the lookup walk for each key inserted so far (from the
\* sentinel, by the key's bit at each node's bit index, to the first
\* back-edge) ends at the node that carries that key.
C16_WalkEndsAtOwnNode ==
  rpc = "phase2" /\ ~trie.threw => EveryKeyFound

\* C16 as amended: the same for keys that hold a non-zero byte and are
\* pairwise distinct once trailing zero bytes are dropped; the builder accepts
\* every such key.
C16_WalkEndsAtOwnNodeOfPaths ==
  (/\ rpc = "phase2"
   /\ \A i \in DOMAIN validPaths : Strip(validPaths[i]) # <<>>
   /\ \A i, j \in DOMAIN validPaths : i # j => Strip(validPaths[i]) # Strip(validPaths[j]))
  => ~trie.threw /\ EveryKeyFound

\* Three keys are in the trie, one of them a proper prefix of another and one
\* holding a zero byte.
C16_Witness ==
  /\ rpc = "phase2" /\ ~trie.threw
  /\ Len(trie.nodes) = 4
  /\ \A i \in 1..3 : Strip(validPaths[i]) # <<>>
  /\ \E i, j \in 1..3 : ProperPrefix(validPaths[i], validPaths[j])
  /\ \E i \in 1..3 : validPaths[i][1] = 0

\* C17: the string reader, started at the index the builder returned for a
\* key, gives back the key's bytes, for keys shorter than, equal to and longer
\* than one and two records, whatever was added before or after.
C17_StringRoundTrip ==
  rpc = "strings" =>
     \A i \in DOMAIN stringIndices :
        stringBytes(stb.records, stringIndices[i]) = [ok |-> TRUE, bytes |-> validPaths[i]]

\* Keys of 60 and of 120 bytes have been added, and a third key after them.
C17_Witness ==
  /\ rpc = "strings"
  /\ Len(stringIndices) = 3
  /\ Len(validPaths[1]) = 60
  /\ Len(validPaths[2]) = 120
  /\ validPaths[3] # validPaths[1] /\ validPaths[3] # validPaths[2]

\* The file of the index-file section has been written.
IdxWritten == ipc \in {"written", "open", "patched", "read"}

\* Every channel's pages fit in s stripes.
StripesFit(s) ==
  \A c \in DOMAIN channelSizes :
    CeilDiv(channelSizes[c], writeArgs.pageSize) <= s * writeArgs.pagesPerStripe[c]

\* C18 as stated: after writeIdxChannelBytes(c, off, data), channel c read from
\* the index file equals data on [off, off + len(data)), for every c, off and
\* data.
C18_ReadBackAgrees ==
  (ipc = "read" /\ chRead.reopened) =>
    \A k \in DOMAIN chWrite.data :
      /\ chWrite.channelOffset + k \in DOMAIN chRead.bytes
      /\ chRead.bytes[chWrite.channelOffset + k] = chWrite.data[k]

\* C18, amended: when the write ends within the size_bytes of channel c, the
\* channel read through a PriusIdx opened after the write equals data on
\* [off, off + len(data)).
C18_ReadBackAgreesWithinSize ==
  (/\ ipc = "read" /\ chRead.reopened
   /\ chWrite.channelOffset + Len(chWrite.data) <= channelSizes[chWrite.channel + 1]) =>
    \A k \in DOMAIN chWrite.data :
      /\ chWrite.channelOffset + k \in DOMAIN chRead.bytes
      /\ chRead.bytes[chWrite.channelOffset + k] = chWrite.data[k]

\* A four-byte write inside the meta channel that starts two bytes before the
\* end of its first page has been read back from the reopened file.
C18_Witness ==
  /\ ipc = "read" /\ chRead.reopened
  /\ chWrite.channel = 2
  /\ Len(chWrite.data) = 4
  /\ chWrite.channelOffset = idxGeom.pageSize - 2
  /\ chWrite.channelOffset + Len(chWrite.data) <= channelSizes[3]

\* C19: the file writeIdx writes is (1 + stripes * sum(pagesPerStripe)) *
\* pageSize bytes long, stripes being the smallest count in which the pages of
\* every channel fit.
C19_IndexFileLength ==
  IdxWritten =>
    \E s \in 0..(idxFileSize \div writeArgs.pageSize) :
      /\ StripesFit(s)
      /\ \A t \in 0..(s - 1) : ~StripesFit(t)
      /\ idxFileSize = (1 + s * SumSeq(writeArgs.pagesPerStripe)) * writeArgs.pageSize

\* writeIdx has written a file of two stripes whose count comes from the meta
\* channel, not from the first channel.
C19_Witness ==
  /\ ipc = "written"
  /\ StripesFit(2) /\ ~StripesFit(1)
  /\ CeilDiv(channelSizes[1], writeArgs.pageSize) <= writeArgs.pagesPerStripe[1]
  /\ idxFileSize = (1 + 2 * SumSeq(writeArgs.pagesPerStripe)) * writeArgs.pageSize

\* Phase 1 of repack has run on the candidates and its locals are still there.
Indexed == rpc \in {"phase3", "stream", "rdone"} /\ runs = 0

\* The keys of the candidates, and of those that have a file.
CandidateKeys == {KeyOf(candidates[i]) : i \in DOMAIN candidates}
FileKeys == {KeyOf(candidates[i]) : i \in {j \in DOMAIN candidates : HasFile(j)}}

\* Candidate i is the first candidate of its key in input order.
FirstOccurrence(i) ==
  \A j \in 1..(i - 1) : KeyOf(candidates[j]) # KeyOf(candidates[i])

\* The accepted keys are pairwise distinct and number 0, 1, 2, ...
DistinctInOrder ==
  /\ \A a, b \in DOMAIN validPaths : a # b => validPaths[a] # validPaths[b]
  /\ metaIndices = [k \in DOMAIN validPaths |-> k - 1]

\* C20 as stated: the accepted keys are pairwise distinct; of the candidates of
\* one key the first in input order is kept and the later ones are counted as
\* deduped; the keys are numbered in acceptance order and the archive has one
\* meta record per distinct key of the candidates.
C20_FirstOccurrenceKept ==
  /\ Indexed =>
       /\ DistinctInOrder
       /\ \A i \in DOMAIN candidates :
            FirstOccurrence(i) =>
              \E k \in DOMAIN validPaths :
                /\ validPaths[k] = KeyOf(candidates[i])
                /\ validLocalPaths[k] = LocalPathOf(candidates[i])
       /\ repDeduped = Cardinality({i \in DOMAIN candidates : ~FirstOccurrence(i)})
  /\ RepackDone => Len(idxMeta) = Cardinality(CandidateKeys)

\* C20, amended: the accepted keys are pairwise distinct; of the candidates of
\* one key the first one whose local file exists is kept, the candidates of
\* that key after it are counted as deduped and those without a file before it
\* as skipped; the keys are numbered in acceptance order and the archive has
\* one meta record per distinct key that has a candidate with a file.
C20_FirstWithFileKept ==
  /\ Indexed =>
       /\ DistinctInOrder
       /\ Len(validPaths) = Cardinality({i \in DOMAIN candidates : Kept(i)})
       /\ \A i \in DOMAIN candidates :
            Kept(i) =>
              /\ validPaths[KeptIndex(i) + 1] = KeyOf(candidates[i])
              /\ validLocalPaths[KeptIndex(i) + 1] = LocalPathOf(candidates[i])
       /\ repDeduped =
            Cardinality({i \in DOMAIN candidates :
                           \E j \in 1..(i - 1) :
                             Kept(j) /\ KeyOf(candidates[j]) = KeyOf(candidates[i])})
       /\ skipped =
            Cardinality({i \in DOMAIN candidates :
                           /\ ~HasFile(i)
                           /\ \A j \in 1..(i - 1) :
                                Kept(j) => KeyOf(candidates[j]) # KeyOf(candidates[i])})
  /\ RepackDone =>
       /\ Len(idxMeta) = Cardinality(FileKeys)
       /\ repOutcome.files = Cardinality(FileKeys)

\* repack has returned on two different paths of one key that both have a
\* file: one meta record, one candidate counted as deduped.
C20_Witness ==
  /\ RepackDone
  /\ Len(candidates) = 2
  /\ candidates[1] # candidates[2]
  /\ KeyOf(candidates[1]) = KeyOf(candidates[2])
  /\ HasFile(1) /\ HasFile(2)
  /\ Len(idxMeta) = 1
  /\ repDeduped = 1

\* ------------------------------------------------------------ compressor, as asked for
\* The state part of C21: a call that has failed does not return, it fails
\* with the first error its handlers were given, and a call that has thrown
\* has no worker left.
FailsWithFirstError ==
  /\ failed => cpc # "returned"
  /\ failed /\ cpc = "loop" => ready = <<>>
  /\ cpc = "threw" =>
       /\ failed
       /\ thrown = errorLog[1]
       /\ \A w \in DOMAIN busy : busy[w] = -2

\* The step part of C21: once a handler has been given an error no task is
\* dispatched and nothing more is delivered.
NothingAfterError ==
  failed' => (nextTask' = nextTask /\ delivered' = delivered)

\* C21: when a worker reports an error or exits abnormally, no further task is
\* dispatched, the call fails with the first error (later ones do not replace
\* it), all workers are terminated, and no result that arrives after the
\* error is delivered.
C21_WorkerErrorAborts == []FailsWithFirstError /\ [][NothingAfterError]_vars

\* The stream has thrown its first error although tasks were left to
\* dispatch; a second error was reported after it, and a result that came in
\* after it is still in the queue.
C21_Witness ==
  /\ cmode = "stream" /\ cpc = "threw"
  /\ Len(errorLog) >= 2 /\ errorLog[2] # errorLog[1]
  /\ nextTask < Len(tasks)
  /\ ready # <<>>

\* delivered is a list of different tasks.
EachOnce(q) == \A a, b \in DOMAIN q : a # b => q[a] # q[b]

\* The stream hands out what came in, in that order, each result once, and
\* has handed out all N of them when it returns.
YieldsArrivals ==
  cmode = "stream" =>
    /\ IsPrefix(delivered, arrivals)
    /\ EachOnce(delivered)
    /\ yielded = Len(delivered)
    /\ cpc = "returned" =>
         /\ Len(delivered) = Len(tasks)
         /\ {delivered[k] : k \in DOMAIN delivered} = 0..(Len(tasks) - 1)

\* C24: in the stream with several workers, unless a worker fails, every
\* result is yielded exactly once, in the order of arrival, and the stream
\* ends after N yields whatever the interleaving of arrivals and waits.
C24_StreamYieldsAllAndEnds ==
  /\ []YieldsArrivals
  /\ (cmode = "stream") ~> (failed \/ cpc = "returned")

\* The stream has returned four results that did not come in in task order.
C24_Witness ==
  /\ cmode = "stream" /\ cpc = "returned"
  /\ Len(delivered) = 4
  /\ delivered # <<0, 1, 2, 3>>
  /\ ~failed

\* The results that are complete and not yet consumed: those a worker has
\* posted and no handler has run for, and those in `ready`.
PostedResults(w) ==
  Cardinality({k \in DOMAIN mailbox[w] : mailbox[w][k].type = "result"})

WaitingResults ==
  Len(ready) + PostedResults(1)
    + (IF workerCount >= 2 THEN PostedResults(2) ELSE 0)
    + (IF workerCount >= 3 THEN PostedResults(3) ELSE 0)

\* C25: in the stream the results that wait for the coordinator never number
\* more than the workers plus one, whatever the number of files and however
\* long the coordinator stays in its loop; `ready` itself never holds more
\* than one.
C25_BoundedByWorkers ==
  (cmode = "stream" /\ cpc \in {"waiting", "loop"}) =>
    /\ WaitingResults <= workerCount + 1
    /\ Len(ready) <= 1

\* Four files and two workers: three results wait while the coordinator is
\* in its loop, and a task is still to be dispatched.
C25_Witness ==
  /\ cmode = "stream" /\ cpc = "loop"
  /\ Len(tasks) = 4 /\ workerCount = 2
  /\ WaitingResults = 3
  /\ nextTask < Len(tasks)

\* C22: in the archive repack wrote from n accepted keys, iterEntries yields n
\* entries, for the nodes 1..n in that order; the entry of node j has the j-th
\* accepted key as its path and meta index j - 1; nothing is yielded for the
\* sentinel, and the listing reads no left or right pointer.
C22_ListsAcceptedKeys ==
  RepackDone =>
    LET entries == iterEntries(OpenArchive)
        unlinked == [OpenArchive EXCEPT
                       !.dt = [k \in DOMAIN idxDt |->
                                 [idxDt[k] EXCEPT !.leftRaw = 0, !.rightRaw = 0]]]
    IN  /\ Len(entries) = Len(validPaths)
        /\ \A j \in DOMAIN entries :
             /\ entries[j].nodeIndex = j
             /\ entries[j].path.ok
             /\ entries[j].path.bytes = validPaths[j]
             /\ entries[j].metaIndex = j - 1
        /\ iterEntries(unlinked) = entries

\* repack has written an archive of two keys, and its listing has two entries.
C22_Witness ==
  /\ RepackDone
  /\ Len(validPaths) = 2
  /\ Len(iterEntries(OpenArchive)) = 2
  /\ iterEntries(OpenArchive)[2].path.bytes = validPaths[2]

\* The queries of the mapping that resolve and are the first to resolve to
\* their meta index, and the k-th of them in mapping order.
FirstToResolve ==
  { i \in DOMAIN fileMap :
      /\ QueryTarget(fileMap[i].requestedPath) >= 0
      /\ \A j \in 1..(i - 1) :
           QueryTarget(fileMap[j].requestedPath) # QueryTarget(fileMap[i].requestedPath) }

KthToResolve(k) ==
  CHOOSE i \in FirstToResolve : Cardinality({ j \in FirstToResolve : j < i }) = k - 1

Unresolved == { i \in DOMAIN fileMap : QueryTarget(fileMap[i].requestedPath) < 0 }

\* The plan and the counters after the resolution loop.
PlanOfFirsts ==
  (pc # "resolve" /\ ~DanglingTarget) =>
     /\ Len(patches) = Cardinality(FirstToResolve)
     /\ \A k \in DOMAIN patches :
          /\ patches[k].requestedPath = fileMap[KthToResolve(k)].requestedPath
          /\ patches[k].localPath = fileMap[KthToResolve(k)].localPath
          /\ patches[k].metaIdx = QueryTarget(patches[k].requestedPath)
     /\ \A k, l \in DOMAIN patches : k # l => patches[k].metaIdx # patches[l].metaIdx
     /\ notFound = Cardinality(Unresolved)
     /\ deduped = Len(fileMap) - Cardinality(Unresolved) - Cardinality(FirstToResolve)
     /\ Len(patches) + notFound + deduped = Len(fileMap)

\* The step that ends resolution: it throws only on a dry run whose plan has
\* a local file that cannot be stat'ed, which is after the resolution loop.
ResolutionDoesNotFail ==
  (pc = "resolve" /\ ~DanglingTarget /\ pc' = "done" /\ outcome'.kind = "throw")
     => (dryRun /\ Len(patches') > 0
         /\ \E i \in DOMAIN patches' : ~LocalFiles[patches'[i].localPath].readable)

\* C23: once resolution is over on an archive whose resolved slots are all in
\* the meta channel, the plan holds, in mapping order, exactly the queries that
\* are the first to resolve to their meta index, each with the meta index of
\* its exact slash-normalised key if the directory has it and of its lowercase
\* key otherwise; notFound and deduped count the other queries, no two planned
\* targets share a meta index, planned + notFound + deduped is the size of the
\* mapping, and the run does not fail in resolution.
C23_ResolutionPlan == []PlanOfFirsts /\ [][ResolutionDoesNotFail]_vars

\* Resolution is over on a mapping of "B" and a key the directory does not
\* have: "B" is planned with the slot of the entry "B", not with that of "b",
\* and the other query is counted as not found.
C23_Witness ==
  /\ pc # "resolve" /\ ~DanglingTarget
  /\ Len(fileMap) = 2
  /\ fileMap[1].requestedPath = <<66>>
  /\ Len(patches) = 1 /\ patches[1].metaIdx = 2
  /\ notFound = 1

\* ------------------------------------------------------------ the shape of the trie
\* The edges of the trie as <<source, target>> per pointer, and those along
\* which the bit index strictly increases.
TrieEdges ==
  { <<s, "left", trie.nodes[s + 1].leftRaw>> : s \in 0..(Len(trie.nodes) - 1) }
    \cup { <<s, "right", trie.nodes[s + 1].rightRaw>> : s \in 0..(Len(trie.nodes) - 1) }

DownEdges ==
  { e \in TrieEdges :
      /\ e[3] \in 0..(Len(trie.nodes) - 1)
      /\ trie.nodes[e[1] + 1].bitIndex < trie.nodes[e[3] + 1].bitIndex }

\* The nodes reached from the sentinel along downward edges.
RECURSIVE DownFrom(_)
DownFrom(S) ==
  LET T == S \cup { e[3] : e \in { d \in DownEdges : d[1] \in S } }
  IN  IF T = S THEN S ELSE DownFrom(T)

TrieShape ==
  /\ \A e \in TrieEdges : e[3] \in 0..(Len(trie.nodes) - 1)
  /\ trie.nodes[1].bitIndex = -1
  /\ DownFrom({0}) = 0..(Len(trie.nodes) - 1)
  /\ \A n \in 1..(Len(trie.nodes) - 1) : Cardinality({ e \in DownEdges : e[3] = n }) = 1
  /\ \A e \in TrieEdges \ DownEdges :
       trie.nodes[e[3] + 1].bitIndex <= trie.nodes[e[1] + 1].bitIndex

\* Every key given to the builder holds a non-zero byte.
NonZeroKeys == \A i \in DOMAIN validPaths : Strip(validPaths[i]) # <<>>

\* C26 as claimed: after every insertion the builder did not refuse, the
\* pointers are node indices, the sentinel has bit index -1, every real node
\* is reached from the sentinel along edges of increasing bit index and is the
\* target of exactly one such edge, and every other edge leads to a node of
\* lower or equal bit index.
C26_TrieShape ==
  rpc = "phase2" /\ ~trie.threw => TrieShape

\* C26 as amended: the same when every key holds a non-zero byte.
C26_TrieShapeOfNonZeroKeys ==
  rpc = "phase2" /\ NonZeroKeys /\ ~trie.threw => TrieShape

\* Three such keys are in the trie, one a proper prefix of another, and some
\* node hangs below a real node.
C26_Witness ==
  /\ rpc = "phase2" /\ NonZeroKeys /\ ~trie.threw
  /\ Len(trie.nodes) = 4
  /\ \E i, j \in 1..3 : ProperPrefix(validPaths[i], validPaths[j])
  /\ \E e \in DownEdges : e[1] # 0

\* The keys the loop has taken so far; the last one is refused when trie.threw.
Taken == Len(trie.nodes) - 1

\* C27 as claimed: the builder refuses a key with the duplicate-key error
\* exactly when a byte-identical key was inserted before it.
C27_DuplicateIffIdentical ==
  rpc = "phase2" =>
     /\ trie.threw => \E j \in 1..(Taken - 1) : validPaths[j] = validPaths[Taken]
     /\ ~trie.threw => \A i, j \in 1..Taken : i # j => validPaths[i] # validPaths[j]

\* C27 as amended: for keys that hold a non-zero byte, the builder refuses a
\* key exactly when a key inserted before it is equal to it once trailing zero
\* bytes are dropped; byte-identical keys are refused, keys that differ in
\* another byte never are.
C27_DuplicateIffSameWithoutTrailingZeros ==
  rpc = "phase2" /\ NonZeroKeys =>
     /\ trie.threw => \E j \in 1..(Taken - 1) : Strip(validPaths[j]) = Strip(validPaths[Taken])
     /\ ~trie.threw => \A i, j \in 1..Taken : i # j => Strip(validPaths[i]) # Strip(validPaths[j])

\* The third key is refused: it is byte-identical to the first, and the second
\* is a longer key with the same first byte.
C27_Witness ==
  /\ rpc = "phase2" /\ trie.threw
  /\ Taken = 3
  /\ validPaths[3] = validPaths[1]
  /\ ProperPrefix(validPaths[1], validPaths[2])
  /\ Strip(validPaths[2]) # Strip(validPaths[1])

\* ------------------------------------------------------------ readers, as asked for
PayloadRead == rdpc = "done" /\ rdCall.op = "readRawMetaBytes"
StringRead == rdpc = "done" /\ rdCall.op = "stringBytes"

\* The chain of the call read off the FAT itself: the block of the k-th read
\* (from 0), FAT_END from the point where the chain has no successor.
RECURSIVE BlockAt(_)
BlockAt(k) ==
  IF k = 0 THEN rdCall.meta.startBlock
  ELSE LET b == BlockAt(k - 1)
       IN  IF b \in 0..(idxFatSize \div 4 - 1) THEN idxFat[b + 1] ELSE FAT_END

BlockCount == CeilDiv(rdCall.meta.size, DAT_BLOCK_SIZE)
TakeAt(k) == Min(DAT_BLOCK_SIZE, rdCall.meta.size - k * DAT_BLOCK_SIZE)

\* The k-th read would come back short: the data file ends before its last byte.
ShortAt(k) == BlockAt(k) # FAT_END /\ BlockAt(k) * DAT_BLOCK_SIZE + TakeAt(k) > datSize

\* Bytes remain after the k-th read and its block has no successor: the FAT
\* entry is the end mark, or the block has no FAT entry.
EndsAt(k) == k < BlockCount - 1 /\ BlockAt(k + 1) = FAT_END

ChainFails ==
  \/ rdCall.meta.startBlock = FAT_END
  \/ \E k \in 0..(BlockCount - 1) : ShortAt(k) \/ EndsAt(k)

\* Among the blocks the call needs, one is reached a second time, and up to
\* there every block is in the data file and has a successor.
ChainCycles ==
  /\ rdCall.meta.size > 0 /\ rdCall.meta.startBlock # FAT_END
  /\ \E j \in 1..(BlockCount - 1) :
       /\ \E i \in 0..(j - 1) : BlockAt(i) = BlockAt(j)
       /\ \A k \in 0..j : BlockAt(k) # FAT_END /\ ~ShortAt(k)

\* C28: a read whose FAT chain reaches a block a second time fails.
C28_CycleIsAnError ==
  PayloadRead /\ ChainCycles => ~rdOut.ok

\* C30: a read of size > 0 that succeeds returns ceil(size / 512) pieces, the
\* k-th of min(512, remaining) bytes of the k-th block of the chain from
\* start_block; it fails, returning nothing, if start_block is 0xFFFFFFFF, if
\* a block has no successor (end mark, or no FAT entry) while bytes remain, or
\* if a read is short, and succeeds otherwise; for size 0 it returns the empty
\* result and the data file is not opened.
C30_ReadsTheChain ==
  PayloadRead =>
     IF rdCall.meta.size = 0
       THEN rdOut.ok /\ rdOut.data = <<>> /\ datFd = "null"
     ELSE IF ChainFails
       THEN ~rdOut.ok /\ rdOut.data = <<>>
     ELSE /\ rdOut.ok
          /\ rdOut.data = [k \in 1..BlockCount |-> <<dat[BlockAt(k - 1) + 1], TakeAt(k - 1)>>]
          /\ datFd = "open"

\* A read of 1025 bytes has returned three pieces, the last of one byte, from
\* a chain that leaves the FAT order.
C30_Witness ==
  /\ PayloadRead /\ rdOut.ok
  /\ rdCall.meta.size = 2 * DAT_BLOCK_SIZE + 1
  /\ Len(rdOut.data) = 3 /\ rdOut.data[3][2] = 1
  /\ BlockAt(1) # BlockAt(0) + 1
  /\ ~ChainCycles

\* The walk of the call read off the string table itself: the record index of
\* the k-th step (from 0), -1 after an index that is not in the table.
InTable(i) == i \in 0..(Len(idxStrings) - 1)

RECURSIVE RecordAt(_)
RecordAt(k) ==
  IF k = 0 THEN rdCall.stringIndex
  ELSE LET i == RecordAt(k - 1)
       IN  IF InTable(i) THEN Low31(idxStrings[i + 1].header) ELSE -1

\* The record ends the string: its payload holds a NUL or its next pointer is 0.
LastRecord(i) ==
  InTable(i) /\ (IndexOfNul(idxStrings[i + 1].payload) # -1 \/ Low31(idxStrings[i + 1].header) = 0)

\* The walk goes on for k steps: none of the records before the k-th ends the
\* string, and all of them are in the table and different.
WalkReaches(k) ==
  /\ \A j \in 0..(k - 1) : InTable(RecordAt(j)) /\ ~LastRecord(RecordAt(j))
  /\ \A i, j \in 0..(k - 1) : i # j => RecordAt(i) # RecordAt(j)

Steps == 0..Len(idxStrings)

WalkRevisits == \E k \in Steps : WalkReaches(k) /\ \E j \in 0..(k - 1) : RecordAt(j) = RecordAt(k)
WalkLeavesTable == \E k \in Steps : WalkReaches(k) /\ ~InTable(RecordAt(k))
WalkLeavesTableAbove == \E k \in Steps : WalkReaches(k) /\ RecordAt(k) >= Len(idxStrings)

\* C29 as claimed: every call ends with a byte string or an error; a walk that
\* reaches a record a second time fails with the cycle error, and a walk that
\* comes to an index outside the table, the start index included, fails
\* without reading it.
C29_WalkEndsOrFails ==
  StringRead =>
     /\ rdOut.ok <=> rdOut.err = "none"
     /\ rdOut.err \in {"none", "loop", "range"}
     /\ WalkRevisits => rdOut.err = "loop"
     /\ WalkLeavesTable => rdOut.err = "range"

\* C29 as amended: the same, except that a negative start index is answered
\* with the empty byte string; an index at or past the number of records,
\* given or met on the way, fails with the range error, and every other call
\* returns.
C29_WalkEndsOrFailsFromZero ==
  StringRead =>
     /\ rdOut.ok <=> rdOut.err = "none"
     /\ rdOut.err \in {"none", "loop", "range"}
     /\ WalkRevisits => rdOut.err = "loop"
     /\ WalkLeavesTableAbove => rdOut.err = "range"
     /\ rdCall.stringIndex < 0 => rdOut.ok /\ rdOut.bytes = <<>>
     /\ ~WalkRevisits /\ ~WalkLeavesTableAbove => rdOut.ok

\* A call on a table of three records whose chain runs through all of them
\* and comes back to the second has failed with the cycle error.
C29_Witness ==
  /\ StringRead /\ rdOut.err = "loop"
  /\ Len(idxStrings) = 3
  /\ WalkReaches(3) /\ RecordAt(3) = RecordAt(1) /\ RecordAt(3) # RecordAt(0)

\* ------------------------------------------------------------ wrapped payloads, as asked for
Decoded == rdpc = "done" /\ rdCall.op = "decodeFilePayload"

\* C31: a buffer shorter than the header fails; with a type other than 1 the
\* bytes after the header are returned as they are exactly when their number
\* is the declared size, a declared size of 0 included, and the call fails
\* otherwise; with type 1 the inflated bytes are returned unless inflate fails
\* or the declared size is not 0 and is not their number.
C31_DecodeChecksDeclaredSize ==
  Decoded =>
    LET raw == rdCall.raw
    IN  IF raw.length < FILE_WRAPPER_HEADER_SIZE THEN ~rdOut.ok
        ELSE IF raw.typ # 1
          THEN /\ rdOut.ok <=> Len(raw.payload) = raw.declaredSize
               /\ rdOut.ok => rdOut.bytes = raw.payload
        ELSE /\ rdOut.ok <=> /\ inflateSync(raw.payload).ok
                             /\ \/ raw.declaredSize = 0
                                \/ Len(inflateSync(raw.payload).bytes) = raw.declaredSize
             /\ rdOut.ok => rdOut.bytes = inflateSync(raw.payload).bytes

\* ------------------------------------------------------------ the index file, as asked for
HeaderRead == rdpc = "done" /\ rdCall.op = "PriusIdx"

\* The candidate page sizes that qualify for the file of the call: the size
\* divides the file length, leaves two pages or more, makes the pages after
\* the header a whole number t of stripes, and gives every channel room.
QualifiesWith(p, t) ==
  LET h == rdCall.file
  IN  /\ \E n \in 2..(h.fileSize \div p) :
           n * p = h.fileSize /\ n - 1 = t * SumSeq(h.pagesPerStripe)
      /\ \A c \in DOMAIN h.sizes : t * h.pagesPerStripe[c] * p >= h.sizes[c]

Qualifying ==
  { p \in {512, 1024, 2048, 4096, 8192, 16384, 32768} :
      \E t \in 0..(rdCall.file.fileSize \div p) : QualifiesWith(p, t) }

\* C32: the constructor fails when no candidate qualifies; otherwise its page
\* size is 4096 if that qualifies and the smallest qualifying candidate if
\* not, and its stripe count is (total_pages - 1) / sum(pages_per_stripe).
C32_PageSizeInferred ==
  HeaderRead =>
     IF Qualifying = {} THEN ~rdOut.ok
     ELSE /\ rdOut.ok
          /\ idxGeom.pageSize \in Qualifying
          /\ 4096 \in Qualifying => idxGeom.pageSize = 4096
          /\ 4096 \notin Qualifying => \A p \in Qualifying : idxGeom.pageSize <= p
          /\ QualifiesWith(idxGeom.pageSize, idxGeom.stripes)

\* A file on which 512 and 4096 both qualify has been opened with 4096.
C32_Witness ==
  /\ HeaderRead /\ rdOut.ok
  /\ {512, 4096} \subseteq Qualifying
  /\ idxGeom.pageSize = 4096 /\ idxGeom.stripes = 1

\* writeIdx was called the way repack calls it (repack_engine.ts line 265): with
\* its default page size and pages per stripe.
RepackWriter == writeArgs.pageSize = PAGE_SIZE /\ writeArgs.pagesPerStripe = DEFAULT_PPS

\* new PriusIdx on the written file has returned or thrown.
IdxOpened == ipc \in {"open", "throw", "patched", "read", "fetched"}

\* The bytes of buffer c as they were handed to writeIdx.
BufferOf(c) == [i \in 1..channelSizes[c + 1] |-> DataByte(c, i - 1)]

\* Opening the file gives the page size and stripes of the writer, and a
\* channel read from it is the buffer.
ReadsWhatWasWritten ==
  /\ IdxOpened =>
       /\ ipc # "throw"
       /\ idxGeom.pageSize = PAGE_SIZE
       /\ idxGeom.stripes = writeIdxStripes(channelSizes, writeArgs.pageSize,
                                            writeArgs.pagesPerStripe)
  /\ ipc = "fetched" => chRead.bytes = BufferOf(chWrite.channel)

\* C33: for any four channel buffers written by the index writer of repack,
\* opening the file infers the page size 4096 and the stripe count of the
\* writer, and readChannel(c) returns the bytes of buffer c for every channel.
C33_ReaderInvertsWriter == RepackWriter => ReadsWhatWasWritten

\* The meta channel of a file of two stripes, longer than one page, has been
\* read back from the file repack's writer wrote.
C33_Witness ==
  /\ RepackWriter /\ ipc = "fetched"
  /\ chWrite.channel = 2 /\ channelSizes[3] > PAGE_SIZE
  /\ idxGeom.stripes = 2
  /\ chRead.bytes = BufferOf(2)

\* The queries put to the archive repack wrote: those of the file maps, every
\* candidate path and ".", the text of string record 0.
LookupQueries == Queries \cup CandidatePaths \cup {<<46>>}

\* C34: in the archive repack built from the accepted keys, findNode(q) gives a
\* node only when q with its slashes normalised is an accepted key, and the
\* node it gives is never the sentinel node 0, the query "." included.
C34_HitsOnlyKeys ==
  RepackDone =>
    \A q \in LookupQueries :
      LET node == findNode(idxDt, idxStrings, q)
      IN  node >= 0 =>
            /\ node # 0
            /\ \E i \in DOMAIN candidates :
                 Kept(i) /\ KeyOf(candidates[i]) = normalizeArchiveQueryPath(q)

\* patchFiles has returned after the commit and the verification.
PatchSucceeded == pc = "done" /\ outcome.kind = "return" /\ idxUpdated

\* Line 277: the place of the size word of the FAT channel (channel 3) in the
\* header, which holds pagesPerStripe and sizeBytes of channel c at 8 + 8 * c.
fatSizeHeaderOffset == 8 + 3 * 8 + 4

Zeroes(n) == [k \in 1..n |-> 0]

WrittenAt(writes) == {writes[k][1] : k \in DOMAIN writes}

\* The offsets of the index file the calls of lines 327-331 write to.
CommitOffsets ==
  WrittenAt(writeIdxChannelBytes(idxGeom, 3, originalFatSize,
                                 Zeroes(4 * Len(newFatEntries))))
  \cup (fatSizeHeaderOffset..(fatSizeHeaderOffset + 3))
  \cup UNION { WrittenAt(writeIdxChannelBytes(idxGeom, 2, prepared[i].metaIdx * META_SIZE,
                                               Zeroes(META_SIZE)))
               : i \in DOMAIN prepared }

\* The length of the index file of the layout the archive was opened with.
IdxFileLength ==
  (1 + idxGeom.stripes * SumSeq(idxGeom.pagesPerStripe)) * idxGeom.pageSize

\* The channel, and the offset in it, of the byte at offset f of a data page.
OwnerOf(f) ==
  LET page == (f \div idxGeom.pageSize) - 1
      sumPages == SumSeq(idxGeom.pagesPerStripe)
      stripe == page \div sumPages
      inStripe == page % sumPages
      c == CHOOSE ch \in 0..3 :
             /\ ChanPrefix(idxGeom.pagesPerStripe, ch) <= inStripe
             /\ inStripe < ChanPrefix(idxGeom.pagesPerStripe, ch + 1)
      channelPage == stripe * idxGeom.pagesPerStripe[c + 1]
                       + (inStripe - ChanPrefix(idxGeom.pagesPerStripe, c))
  IN  [channel |-> c, offset |-> channelPage * idxGeom.pageSize + (f % idxGeom.pageSize)]

\* The commit wrote the index file inside its length, and only the FAT size
\* word, the FAT channel from originalFatSize on and the targeted meta records.
IndexWritesInFrame ==
  \A f \in CommitOffsets :
    /\ f < IdxFileLength
    /\ \/ f \in fatSizeHeaderOffset..(fatSizeHeaderOffset + 3)
       \/ /\ f >= idxGeom.pageSize
          /\ \/ OwnerOf(f).channel = 3 /\ OwnerOf(f).offset >= originalFatSize
             \/ /\ OwnerOf(f).channel = 2
                /\ (OwnerOf(f).offset \div META_SIZE) \in TargetSlots

\* C35: a successful patch leaves unchanged the first originalDatSize bytes of
\* the data file, the trie and string channels, every FAT entry below
\* originalFatSize, every meta record that is not targeted, the header but for
\* the FAT size word, and the length of the index file.
C35_PatchFrame ==
  PatchSucceeded =>
    /\ SubSeq(dat, 1, originalDatSize \div DAT_BLOCK_SIZE) = PrePatch.dat
    /\ originalDatSize = PrePatch.datSize
    /\ idxDt = PrePatch.dt /\ idxStrings = PrePatch.strings
    /\ idxGeom = PrePatch.layout
    /\ \A b \in 1..(originalFatSize \div 4) : idxFat[b] = PrePatch.fat[b]
    /\ Len(idxMeta) = Len(PrePatch.meta)
    /\ \A m \in DOMAIN idxMeta :
         (m - 1) \notin TargetSlots => idxMeta[m] = PrePatch.meta[m]
    /\ IndexWritesInFrame

\* Two payloads were appended and two of the three meta records replaced.
C35_Witness ==
  /\ PatchSucceeded
  /\ Len(prepared) = 2
  /\ datSize > originalDatSize
  /\ idxFatSize > originalFatSize
  /\ \E m \in DOMAIN idxMeta : (m - 1) \notin TargetSlots
  /\ \E m \in DOMAIN idxMeta : idxMeta[m] # PrePatch.meta[m]

\* The system calls of the other writer in the log.
Foreign == {k \in DOMAIN ioLog : ioLog[k][2] = "foreign"}

\* C36: when the data file has another length at the open of the commit than
\* at the preflight, patchFiles throws without a write to either file and
\* without a rollback: the data file keeps the length the other writer gave it.
C36_AbortsOnForeignLength ==
  Foreign # {} =>
    /\ pc \in {"prepare", "commit", "catch", "rethrow", "done"}
    /\ Foreign = DOMAIN ioLog
    /\ ~datAppended /\ ~idxUpdated /\ ~rolledBack
    /\ datSize = ioLog[1][3] /\ dat = Truncate(PrePatch.dat, datSize)
    /\ idxMeta = PrePatch.meta /\ idxFatSize = PrePatch.fatSize /\ idxFat = PrePatch.fat
    /\ pc = "done" => outcome = Thrown

\* The commit found the data file one block longer than the preflight did, and
\* patchFiles has thrown.
C36_Witness ==
  /\ Foreign # {}
  /\ pc = "done" /\ outcome = Thrown
  /\ prepared # <<>>
  /\ datSize = originalDatSize + DAT_BLOCK_SIZE

\* repack has written the archive, and the patch runs started on it so far
\* have returned.
ArchiveAtRest ==
  /\ rpc = "rdone" /\ repOutcome.kind = "return"
  /\ pc = "idle" \/ (pc = "done" /\ outcome.kind = "return")

\* The blocks on the FAT chain that starts at block b, followed for at most n
\* steps: up to the end mark or to a block without FAT entry.
RECURSIVE ChainFrom(_, _)
ChainFrom(b, n) ==
  IF n = 0 \/ b = FAT_END THEN {}
  ELSE {b} \cup (IF b \in 0..(idxFatSize \div 4 - 1)
                   THEN ChainFrom(idxFat[b + 1], n - 1) ELSE {})

\* The meta records with size > 0 that nodes of the trie name.
ReferencedMeta ==
  { m \in {idxDt[k].metaIndex : k \in 2..Len(idxDt)} :
      m + 1 \in DOMAIN idxMeta /\ idxMeta[m + 1].size > 0 }

ChainOfMeta(m) == ChainFrom(idxMeta[m + 1].startBlock, idxFatSize \div 4 + 1)

\* C37: in the archive repack wrote, and after the patches that returned, the
\* block chains of the referenced meta records with size > 0 are pairwise
\* disjoint, hold neither block 0 nor a block at or past the FAT entry count,
\* and FAT entry 0 is 0.
C37_ChainsDisjoint ==
  ArchiveAtRest =>
    /\ idxFat[1] = 0
    /\ \A m \in ReferencedMeta :
         /\ 0 \notin ChainOfMeta(m)
         /\ ChainOfMeta(m) \subseteq 1..(idxFatSize \div 4 - 1)
         /\ \A o \in ReferencedMeta : o # m => ChainOfMeta(m) \cap ChainOfMeta(o) = {}

\* Two files were packed and two patch runs have replaced payloads since: one
\* of the two chains has two blocks and lies behind the blocks repack wrote.
C37_Witness ==
  /\ ArchiveAtRest /\ runs = 2 /\ idxUpdated
  /\ Cardinality(ReferencedMeta) = 2
  /\ \E m \in ReferencedMeta :
       /\ Cardinality(ChainOfMeta(m)) = 2
       /\ \A b \in ChainOfMeta(m) : b >= repOutcome.datSize \div DAT_BLOCK_SIZE

\* No task has failed and no worker has died.
NoFailureYet ==
  /\ ~failed /\ errorLog = <<>> /\ thrown = NoError
  /\ CallOpen => \A w \in DOMAIN busy : busy[w] # -2
  /\ \A w \in DOMAIN mailbox : \A k \in DOMAIN mailbox[w] : mailbox[w][k].type = "result"

\* Where task i is: with the worker it was posted to, in the answer of a
\* worker that no handler ran for yet, or among the results received.
HeldBy(i) == {w \in DOMAIN busy : busy[w] = i}
AnswerOf(i) ==
  {<<w, k>> \in (DOMAIN mailbox) \X (1..2) : k \in DOMAIN mailbox[w] /\ mailbox[w][k].index = i}
ArrivalOf(i) == {k \in DOMAIN arrivals : arrivals[k] = i}
Copies(i) == Cardinality(HeldBy(i)) + Cardinality(AnswerOf(i)) + Cardinality(ArrivalOf(i))

\* The tasks below nextTask were posted, each to one worker, once; the others
\* not yet; a call that returned has posted them all.
PostedOnce ==
  /\ nextTask \in 0..Len(tasks)
  /\ \A i \in 0..(Len(tasks) - 1) : Copies(i) = IF i < nextTask THEN 1 ELSE 0
  /\ cpc = "returned" => nextTask = Len(tasks)

\* The batch promise is resolved with the result of every task in its slot, or
\* rejected with an error, not both.
BatchOutcome ==
  cmode = "batch" =>
    /\ cpc = "returned" =>
         /\ thrown = NoError
         /\ delivered = [i \in 1..Len(tasks) |-> i - 1]
    /\ cpc = "threw" => thrown # NoError /\ delivered = <<>>

\* A worker is given a task only by the handler of its own result, when it
\* holds none, and the task is the next one.
PostsToIdleWorker ==
  /\ \A w \in DOMAIN busy :
       (busy'[w] >= 0 /\ busy'[w] # busy[w]) =>
         /\ busy[w] = -1
         /\ mailbox[w] # <<>> /\ Head(mailbox[w]).type = "result"
         /\ busy'[w] = nextTask /\ nextTask' = nextTask + 1
  /\ nextTask' # nextTask =>
       /\ nextTask' = nextTask + 1
       /\ Cardinality({w \in DOMAIN busy : busy'[w] = nextTask}) <= 1

\* What the call has reported stays as it is.
SettledStays ==
  /\ cpc \in {"returned", "threw"} => UNCHANGED <<cpc, delivered, thrown>>
  /\ (cmode = "batch" /\ cpc = "closing") => failed' = failed

\* C38: in the batch and in the stream, as long as nothing has failed every
\* task is posted to one worker once, a worker gets its next task only after
\* it has answered the one before, there are no more workers than tasks, and
\* the batch settles once: with all results, or with an error.
C38_PoolDiscipline ==
  /\ [](workerCount <= Len(tasks) /\ Len(busy) = workerCount)
  /\ [](NoFailureYet => PostedOnce)
  /\ []BatchOutcome
  /\ [][PostsToIdleWorker /\ SettledStays]_vars

\* A batch of four tasks on two workers has resolved: each worker has
\* answered a first task and then got another.
C38_Witness ==
  /\ cmode = "batch" /\ cpc = "returned" /\ NoFailureYet
  /\ Len(tasks) = 4 /\ workerCount = 2
  /\ Len(arrivals) = 4
====
